---- MODULE Spec2Model ----
(***************************************************************************)
(* Verification model of the KBE action input models                       *)
(* (src/src/models/actions/*.py).                                          *)
(*                                                                         *)
(* A request is a raw parameter bundle.  Constructing an input model runs  *)
(* the validation pipeline of the model class:                            *)
(*   1. every field, in declaration order: the Field(...) constraints,     *)
(*      then the field's @field_validator when the constraints passed;     *)
(*      the errors of all fields are collected;                            *)
(*   2. only when no field failed: the @model_validator(mode="after")      *)
(*      methods in definition order, the first one that raises ends the    *)
(*      construction with that single error.                               *)
(*                                                                         *)
(* Conventions.  An optional or omitted value is the empty sequence <<>>,  *)
(* a supplied value v is <<v>>.  Temperatures are whole degrees            *)
(* Fahrenheit, durations whole minutes.  A zone id inside a list is a      *)
(* sequence of characters, so that str.strip() is computed; a time of day  *)
(* is the sequence of the four digits of "HH:MM".                          *)
(***************************************************************************)
EXTENDS Integers, Sequences, FiniteSets, TLC

VARIABLES
    phase,      \* "idle" | "submitted" | "done"
    kind,       \* "none" | "adjust_setpoint" | "load_shed" | "pre_cooling"
    payload,    \* the raw parameter bundle of the request in progress
    result,     \* the outcome of the construction
    _actions,   \* ActionRegistry._actions of the global registry, in insertion order
    imported,   \* whether the package src.models.descriptors has been imported
    call,       \* the last call made on the registry and what it returned
    _validation_rules,  \* ActionValidator._validation_rules
    vstage,     \* "idle" | "received" | "answered"
    vrequest,   \* the arguments of the validation in progress
    vresponse,  \* the ValidationResponse returned
    now,        \* the number of clock readings taken so far (datetime.utcnow)
    sm,         \* a StateManager used directly: its three attributes
    smcall,     \* the last call made on sm and what it returned
    started,    \* whether the application's lifespan startup has run
    _state_manager, \* the module globals _state_manager of api.actions, api.building, api.audit
    _executor,  \* the module global _executor of api.actions
    tasks,      \* the execute_action calls made so far, by action_id
    served      \* the last answer of a cancel, building or audit call

requestVars == <<phase, kind, payload, result>>
registryVars == <<_actions, imported, call>>
validatorVars == <<_validation_rules, vstage, vrequest, vresponse>>
managerVars == <<sm, smcall>>
serviceVars == <<started, _state_manager, _executor, tasks, served>>

vars == <<phase, kind, payload, result, _actions, imported, call,
          _validation_rules, vstage, vrequest, vresponse,
          now, sm, smcall, started, _state_manager, _executor, tasks, served>>

(***************************************************************************)
(* Bounds of the model (not program constants).                            *)
(***************************************************************************)
Pad == 1          \* how far the numeric inputs reach beyond the hard bounds
MaxZones == 2     \* longest zone id list submitted
MaxClock == 3     \* clock readings taken by calls on the state manager
MaxCalls == 2     \* execute_action calls made

(***************************************************************************)
(* Generic helpers.                                                        *)
(***************************************************************************)
None == <<>>
Some(v) == <<v>>
Opt(S) == {None} \cup {Some(v) : v \in S}

Abs(n) == IF n < 0 THEN -n ELSE n

SeqsUpTo(S, n) == UNION {[1..k -> S] : k \in 0..n}

ToSet(s) == {s[i] : i \in DOMAIN s}

\* the set S itself; the comparison puts a large set in normal form, so that
\* a union with it is a merge
Normal(S) == IF S = {} THEN {} ELSE S

\* One entry of a validation report.  loc is the field the error is scoped
\* to ("" for an error raised by a model validator), type the framework's
\* error type, msg the message of a ValueError raised by a validator method.
Error(loc, type, msg) == [loc |-> loc, type |-> type, msg |-> msg]

\* Outcome of validating one field: the validated value, or the errors.
Ok(v) == [val |-> Some(v), errs |-> <<>>]
Fail(loc, type, msg) == [val |-> None, errs |-> <<Error(loc, type, msg)>>]

NoCall == [op |-> "none", arg |-> <<>>, ret |-> <<>>]

NoResult == [ok |-> FALSE, instance |-> None, errors |-> <<>>, ran |-> <<>>]

\* The @model_validator(mode="after") methods of a class, run in definition
\* order on the instance built from the validated fields.  checks[i] is
\* [name, err]: err is the error validator i raises on the instance, None
\* when it returns.  The first one that raises ends the construction.
FirstRaising(checks) ==
    IF \E i \in DOMAIN checks : checks[i].err # None
    THEN CHOOSE i \in DOMAIN checks :
             /\ checks[i].err # None
             /\ \A j \in 1..(i - 1) : checks[j].err = None
    ELSE 0

RunModelValidators(self, checks) ==
    LET k == FirstRaising(checks)
    IN IF k = 0
       THEN [ok |-> TRUE, instance |-> Some(self), errors |-> <<>>,
             ran |-> [i \in DOMAIN checks |-> checks[i].name]]
       ELSE [ok |-> FALSE, instance |-> None, errors |-> <<checks[k].err[1]>>,
             ran |-> [i \in 1..k |-> checks[i].name]]

\* The report of the field stage: the errors of every failing field, in
\* field declaration order.  No model validator runs.
FieldFailure(errs) == [ok |-> FALSE, instance |-> None, errors |-> errs, ran |-> <<>>]

(***************************************************************************)
(* AdjustSetpointInput  (src/src/models/actions/adjust_setpoint.py)        *)
(***************************************************************************)
AdjustPriorities == {"low", "medium", "high", "emergency"}

AS_zone_id(p) ==
    IF p.zone_id = None THEN Fail("zone_id", "missing", "")
    ELSE IF Len(p.zone_id[1]) < 1 THEN Fail("zone_id", "string_too_short", "")
    ELSE Ok(p.zone_id[1])

\* @field_validator("new_setpoint")
AS_validate_comfort_range(v) ==
    IF v < 60 \/ v > 80
    THEN Fail("new_setpoint", "value_error", "outside typical comfort range")
    ELSE Ok(v)

\* a defect: the comfort range is waived for high and emergency priority,
\* as the error message suggests
AS_new_setpoint_PriorityWaiver(p) ==
    IF p.new_setpoint = None THEN Fail("new_setpoint", "missing", "")
    ELSE IF ~(p.new_setpoint[1] >= 50) THEN Fail("new_setpoint", "greater_than_equal", "")
    ELSE IF ~(p.new_setpoint[1] <= 90) THEN Fail("new_setpoint", "less_than_equal", "")
    ELSE IF p.priority \in {Some("high"), Some("emergency")} THEN Ok(p.new_setpoint[1])
    ELSE AS_validate_comfort_range(p.new_setpoint[1])

AS_new_setpoint(p) ==
    IF p.new_setpoint = None THEN Fail("new_setpoint", "missing", "")
    ELSE IF ~(p.new_setpoint[1] >= 50) THEN Fail("new_setpoint", "greater_than_equal", "")
    ELSE IF ~(p.new_setpoint[1] <= 90) THEN Fail("new_setpoint", "less_than_equal", "")
    ELSE AS_validate_comfort_range(p.new_setpoint[1])

AS_reason(p) ==
    IF p.reason = None THEN Fail("reason", "missing", "")
    ELSE IF Len(p.reason[1]) < 1 THEN Fail("reason", "string_too_short", "")
    ELSE Ok(p.reason[1])

AS_priority(p) ==
    IF p.priority = None THEN Ok("medium")
    ELSE IF p.priority[1] \notin AdjustPriorities THEN Fail("priority", "literal_error", "")
    ELSE Ok(p.priority[1])

AS_max_change(p) ==
    IF p.max_change = None THEN Ok(5)
    ELSE IF ~(p.max_change[1] > 0) THEN Fail("max_change", "greater_than", "")
    ELSE IF ~(p.max_change[1] <= 15) THEN Fail("max_change", "less_than_equal", "")
    ELSE Ok(p.max_change[1])

AS_current_setpoint(p) ==
    IF p.current_setpoint = None THEN Ok(None)
    ELSE IF ~(p.current_setpoint[1] >= 50) THEN Fail("current_setpoint", "greater_than_equal", "")
    ELSE IF ~(p.current_setpoint[1] <= 90) THEN Fail("current_setpoint", "less_than_equal", "")
    ELSE Ok(p.current_setpoint)

\* a defect: a change equal to max_change is refused
AS_validate_setpoint_change_Strict(self) ==
    IF self.current_setpoint # None
    THEN LET change == Abs(self.new_setpoint - self.current_setpoint[1])
         IN IF change >= self.max_change
            THEN Some(Error("", "value_error", "exceeds max_change limit"))
            ELSE None
    ELSE None

\* @model_validator(mode="after")
AS_validate_setpoint_change(self) ==
    IF self.current_setpoint # None
    THEN LET change == Abs(self.new_setpoint - self.current_setpoint[1])
         IN IF change > self.max_change
            THEN Some(Error("", "value_error", "exceeds max_change limit"))
            ELSE None
    ELSE None

\* the @model_validator methods of AdjustSetpointInput, in definition order
AS_ModelValidators(self) ==
    <<[name |-> "validate_setpoint_change", err |-> AS_validate_setpoint_change(self)]>>

AdjustSetpointInput(p) ==
    LET zone_id == AS_zone_id(p)
        new_setpoint == AS_new_setpoint(p)
        reason == AS_reason(p)
        priority == AS_priority(p)
        max_change == AS_max_change(p)
        current_setpoint == AS_current_setpoint(p)
        errs == zone_id.errs \o new_setpoint.errs \o reason.errs \o priority.errs
                \o max_change.errs \o current_setpoint.errs
    IN IF errs # <<>> THEN FieldFailure(errs)
       ELSE LET self == [zone_id |-> zone_id.val[1],
                         new_setpoint |-> new_setpoint.val[1],
                         reason |-> reason.val[1],
                         priority |-> priority.val[1],
                         max_change |-> max_change.val[1],
                         current_setpoint |-> current_setpoint.val[1]]
            IN RunModelValidators(self, AS_ModelValidators(self))

\* Requests submitted for AdjustSetpointInput.
AS_Base ==
    [zone_id |-> Some("zone-1"), new_setpoint |-> Some(70), reason |-> Some("r"),
     priority |-> None, max_change |-> None, current_setpoint |-> None]

AS_Temps == (50 - Pad)..(90 + Pad)

\* every setpoint with every priority
AS_SetpointSweep ==
    {[AS_Base EXCEPT !.new_setpoint = Some(n), !.priority = pr, !.current_setpoint = c] :
        n \in AS_Temps, pr \in Opt(AdjustPriorities \cup {"urgent"}), c \in {None, Some(70)}}

\* every setpoint against every current setpoint and every change limit
AS_ChangeSweep ==
    {[AS_Base EXCEPT !.new_setpoint = Some(n), !.current_setpoint = c, !.max_change = m] :
        n \in AS_Temps, c \in Opt(AS_Temps), m \in Opt(0..(15 + Pad))}

\* combinations of valid, invalid and omitted fields
AS_Mixed ==
    {[zone_id |-> z, new_setpoint |-> n, reason |-> r, priority |-> pr,
      max_change |-> m, current_setpoint |-> c] :
        z \in {Some(""), Some("zone-1")},
        n \in {None, Some(49), Some(59), Some(70)},
        r \in {None, Some(""), Some("r")},
        pr \in {None, Some("emergency"), Some("urgent")},
        m \in {None, Some(0), Some(16)},
        c \in {None, Some(49), Some(62), Some(76)}}

AdjustSetpointPayloads ==
    Normal(Normal(AS_ChangeSweep) \cup AS_SetpointSweep) \cup AS_Mixed

(***************************************************************************)
(* Zone id strings.  str.strip() removes leading and trailing whitespace.  *)
(***************************************************************************)
IsSpace(c) == c \in {" ", "\t", "\n"}

RECURSIVE LStrip(_)
LStrip(s) == IF s # <<>> /\ IsSpace(Head(s)) THEN LStrip(Tail(s)) ELSE s

RECURSIVE RStrip(_)
RStrip(s) == IF s # <<>> /\ IsSpace(s[Len(s)]) THEN RStrip(SubSeq(s, 1, Len(s) - 1)) ELSE s

Strip(s) == RStrip(LStrip(s))

Z1 == <<"Z", "1">>
Z2 == <<"Z", "2">>
ZoneIdChoices == {<<>>, <<" ">>, <<" ", "Z">>, Z1, Z2}
ZoneLists == SeqsUpTo(ZoneIdChoices, MaxZones)

(***************************************************************************)
(* LoadShedInput  (src/src/models/actions/load_shed.py)                    *)
(***************************************************************************)
ShedLevels == {1, 2, 3, 4, 5}
EquipmentTypes == {"hvac", "lighting", "fan", "pump", "chiller", "boiler"}

\* a defect: only empty zone ids are refused, whitespace is not stripped
LS_validate_zone_ids_NoStrip(v) ==
    IF Len(v) # Cardinality(ToSet(v))
    THEN Fail("zone_ids", "value_error", "Duplicate zone IDs not allowed")
    ELSE IF \E i \in DOMAIN v : v[i] = <<>>
    THEN Fail("zone_ids", "value_error", "Zone IDs cannot be empty or whitespace")
    ELSE Ok(v)

\* @field_validator("zone_ids")
LS_validate_zone_ids(v) ==
    IF Len(v) # Cardinality(ToSet(v))
    THEN Fail("zone_ids", "value_error", "Duplicate zone IDs not allowed")
    ELSE IF \E i \in DOMAIN v : Strip(v[i]) = <<>>
    THEN Fail("zone_ids", "value_error", "Zone IDs cannot be empty or whitespace")
    ELSE Ok(v)

LS_zone_ids(p) ==
    IF p.zone_ids = None THEN Fail("zone_ids", "missing", "")
    ELSE IF Len(p.zone_ids[1]) < 1 THEN Fail("zone_ids", "too_short", "")
    ELSE LS_validate_zone_ids(p.zone_ids[1])

LS_shed_level(p) ==
    IF p.shed_level = None THEN Fail("shed_level", "missing", "")
    ELSE IF p.shed_level[1] \notin ShedLevels THEN Fail("shed_level", "literal_error", "")
    ELSE Ok(p.shed_level[1])

\* a defect: the cap starts above level 4
LS_validate_duration_Above4(v, shed_level) ==
    IF shed_level # None /\ shed_level[1] # 0 /\ shed_level[1] > 4 /\ v > 120
    THEN Fail("duration_minutes", "value_error", "should not exceed 120 minutes duration")
    ELSE Ok(v)

\* @field_validator("duration_minutes"); shed_level is info.data.get("shed_level"):
\* the validated shed level, None when that field failed.
LS_validate_duration(v, shed_level) ==
    IF shed_level # None /\ shed_level[1] # 0 /\ shed_level[1] >= 4 /\ v > 120
    THEN Fail("duration_minutes", "value_error", "should not exceed 120 minutes duration")
    ELSE Ok(v)

\* a defect: the level-dependent cap runs before the Field constraints
\* (the validator declared with mode="before")
LS_duration_minutes_CapFirst(p, shed_level) ==
    IF p.duration_minutes = None THEN Fail("duration_minutes", "missing", "")
    ELSE IF LS_validate_duration(p.duration_minutes[1], shed_level).errs # <<>>
    THEN LS_validate_duration(p.duration_minutes[1], shed_level)
    ELSE IF ~(p.duration_minutes[1] > 0) THEN Fail("duration_minutes", "greater_than", "")
    ELSE IF ~(p.duration_minutes[1] <= 240) THEN Fail("duration_minutes", "less_than_equal", "")
    ELSE Ok(p.duration_minutes[1])

LS_duration_minutes(p, shed_level) ==
    IF p.duration_minutes = None THEN Fail("duration_minutes", "missing", "")
    ELSE IF ~(p.duration_minutes[1] > 0) THEN Fail("duration_minutes", "greater_than", "")
    ELSE IF ~(p.duration_minutes[1] <= 240) THEN Fail("duration_minutes", "less_than_equal", "")
    ELSE LS_validate_duration(p.duration_minutes[1], shed_level)

\* one literal_error per list item outside the Literal
LS_equipment_types(p) ==
    IF p.equipment_types = None THEN Ok(<<>>)
    ELSE LET v == p.equipment_types[1]
             bad == SelectSeq(v, LAMBDA e : e \notin EquipmentTypes)
         IN IF bad # <<>>
            THEN [val |-> None,
                  errs |-> [i \in DOMAIN bad |-> Error("equipment_types", "literal_error", bad[i])]]
            ELSE Ok(v)

LS_reason(p) ==
    IF p.reason = None THEN Fail("reason", "missing", "")
    ELSE IF Len(p.reason[1]) < 1 THEN Fail("reason", "string_too_short", "")
    ELSE Ok(p.reason[1])

LS_min_comfort_temp(p) ==
    IF p.min_comfort_temp = None THEN Ok(68)
    ELSE IF ~(p.min_comfort_temp[1] >= 60) THEN Fail("min_comfort_temp", "greater_than_equal", "")
    ELSE IF ~(p.min_comfort_temp[1] <= 75) THEN Fail("min_comfort_temp", "less_than_equal", "")
    ELSE Ok(p.min_comfort_temp[1])

LS_max_comfort_temp(p) ==
    IF p.max_comfort_temp = None THEN Ok(78)
    ELSE IF ~(p.max_comfort_temp[1] >= 70) THEN Fail("max_comfort_temp", "greater_than_equal", "")
    ELSE IF ~(p.max_comfort_temp[1] <= 85) THEN Fail("max_comfort_temp", "less_than_equal", "")
    ELSE Ok(p.max_comfort_temp[1])

LS_priority_zones(p) ==
    IF p.priority_zones = None THEN Ok(<<>>) ELSE Ok(p.priority_zones[1])

LS_expected_savings_kw(p) ==
    IF p.expected_savings_kw = None THEN Ok(None)
    ELSE IF ~(p.expected_savings_kw[1] >= 0) THEN Fail("expected_savings_kw", "greater_than_equal", "")
    ELSE Ok(p.expected_savings_kw)

\* a defect: a range of exactly 5 degrees is refused
LS_validate_comfort_range_Strict(self) ==
    IF self.min_comfort_temp >= self.max_comfort_temp
    THEN Some(Error("", "value_error", "min_comfort_temp must be less than max_comfort_temp"))
    ELSE LET temp_range == self.max_comfort_temp - self.min_comfort_temp
         IN IF temp_range <= 5
            THEN Some(Error("", "value_error", "Comfort temperature range is too narrow"))
            ELSE None

\* @model_validator(mode="after"), first defined
LS_validate_comfort_range(self) ==
    IF self.min_comfort_temp >= self.max_comfort_temp
    THEN Some(Error("", "value_error", "min_comfort_temp must be less than max_comfort_temp"))
    ELSE LET temp_range == self.max_comfort_temp - self.min_comfort_temp
         IN IF temp_range < 5
            THEN Some(Error("", "value_error", "Comfort temperature range is too narrow"))
            ELSE None

\* @model_validator(mode="after"), second defined
LS_validate_priority_zones(self) ==
    IF self.priority_zones # <<>>
    THEN LET overlap == ToSet(self.zone_ids) \cap ToSet(self.priority_zones)
         IN IF overlap # {}
            THEN Some(Error("", "value_error", "Priority zones cannot be in shed zone list"))
            ELSE None
    ELSE None

\* a defect: the priority-zone rule is defined before the comfort-range rule
LS_ModelValidators_Swapped(self) ==
    <<[name |-> "validate_priority_zones", err |-> LS_validate_priority_zones(self)],
      [name |-> "validate_comfort_range", err |-> LS_validate_comfort_range(self)]>>

\* the @model_validator methods of LoadShedInput, in definition order
LS_ModelValidators(self) ==
    <<[name |-> "validate_comfort_range", err |-> LS_validate_comfort_range(self)],
      [name |-> "validate_priority_zones", err |-> LS_validate_priority_zones(self)]>>

LoadShedInput(p) ==
    LET zone_ids == LS_zone_ids(p)
        shed_level == LS_shed_level(p)
        duration_minutes == LS_duration_minutes(p, shed_level.val)
        equipment_types == LS_equipment_types(p)
        reason == LS_reason(p)
        min_comfort_temp == LS_min_comfort_temp(p)
        max_comfort_temp == LS_max_comfort_temp(p)
        priority_zones == LS_priority_zones(p)
        expected_savings_kw == LS_expected_savings_kw(p)
        errs == zone_ids.errs \o shed_level.errs \o duration_minutes.errs
                \o equipment_types.errs \o reason.errs \o min_comfort_temp.errs
                \o max_comfort_temp.errs \o priority_zones.errs \o expected_savings_kw.errs
    IN IF errs # <<>> THEN FieldFailure(errs)
       ELSE LET self == [zone_ids |-> zone_ids.val[1],
                         shed_level |-> shed_level.val[1],
                         duration_minutes |-> duration_minutes.val[1],
                         equipment_types |-> equipment_types.val[1],
                         reason |-> reason.val[1],
                         min_comfort_temp |-> min_comfort_temp.val[1],
                         max_comfort_temp |-> max_comfort_temp.val[1],
                         priority_zones |-> priority_zones.val[1],
                         expected_savings_kw |-> expected_savings_kw.val[1]]
            IN RunModelValidators(self, LS_ModelValidators(self))

\* Requests submitted for LoadShedInput.
LS_Base ==
    [zone_ids |-> Some(<<Z1>>), shed_level |-> Some(1), duration_minutes |-> Some(60),
     equipment_types |-> None, reason |-> Some("r"), min_comfort_temp |-> None,
     max_comfort_temp |-> None, priority_zones |-> None, expected_savings_kw |-> None]

\* every duration with every shed level
LS_DurationSweep ==
    {[LS_Base EXCEPT !.shed_level = s, !.duration_minutes = d] :
        s \in Opt((1 - Pad)..(5 + Pad)), d \in Opt((1 - Pad)..(240 + Pad))}

\* every zone list against every priority-zone list
LS_ZoneSweep ==
    {[LS_Base EXCEPT !.zone_ids = z, !.priority_zones = pz] :
        z \in Opt(ZoneLists), pz \in Opt(ZoneLists)}

\* every comfort range
LS_ComfortSweep ==
    {[LS_Base EXCEPT !.min_comfort_temp = lo, !.max_comfort_temp = hi, !.priority_zones = pz] :
        lo \in Opt((60 - Pad)..(75 + Pad)), hi \in Opt((70 - Pad)..(85 + Pad)),
        pz \in {None, Some(<<Z1>>), Some(<<Z2>>)}}

\* combinations of valid, invalid and omitted fields
LS_Mixed ==
    {[zone_ids |-> z, shed_level |-> s, duration_minutes |-> d, equipment_types |-> e,
      reason |-> r, min_comfort_temp |-> lo, max_comfort_temp |-> hi,
      priority_zones |-> pz, expected_savings_kw |-> k] :
        z \in {Some(<<>>), Some(<<Z1>>), Some(<<Z1, Z1>>)},
        s \in {None, Some(1), Some(5), Some(7)},
        d \in {Some(0), Some(60), Some(150)},
        e \in {None, Some(<<"hvac">>), Some(<<"toaster", "hvac", "kettle">>)},
        r \in {Some(""), Some("r")},
        lo \in {None, Some(74), Some(50)},
        hi \in {None, Some(76)},
        pz \in {None, Some(<<Z1>>)},
        k \in {None, Some(-1), Some(12)}}

LoadShedPayloads ==
    Normal(Normal(Normal(LS_DurationSweep) \cup LS_ZoneSweep) \cup LS_ComfortSweep) \cup LS_Mixed

(***************************************************************************)
(* Times of day.  A time string is its sequence of characters; the field   *)
(* pattern ^([01]\d|2[0-3]):([0-5]\d)$ is matched on the characters and    *)
(* strptime(.., "%H:%M") reads the digits.                                 *)
(***************************************************************************)
DigitChars == <<"0", "1", "2", "3", "4", "5", "6", "7", "8", "9">>
IsDigit(c) == \E i \in DOMAIN DigitChars : DigitChars[i] = c
DigitVal(c) == (CHOOSE i \in DOMAIN DigitChars : DigitChars[i] = c) - 1

\* the text "HH:MM" of hour h and minute m (two digits each)
TimeText(h, m) ==
    <<DigitChars[(h \div 10) + 1], DigitChars[(h % 10) + 1], ":",
      DigitChars[(m \div 10) + 1], DigitChars[(m % 10) + 1]>>

MatchesTimePattern(s) ==
    /\ Len(s) = 5
    /\ \/ s[1] \in {"0", "1"} /\ IsDigit(s[2])
       \/ s[1] = "2" /\ s[2] \in {"0", "1", "2", "3"}
    /\ s[3] = ":"
    /\ s[4] \in {"0", "1", "2", "3", "4", "5"}
    /\ IsDigit(s[5])

\* datetime.strptime(s, "%H:%M").time() on a string that matches the pattern
ParseTime(s) ==
    [hour |-> DigitVal(s[1]) * 10 + DigitVal(s[2]),
     minute |-> DigitVal(s[4]) * 10 + DigitVal(s[5])]

(***************************************************************************)
(* PreCoolingInput  (src/src/models/actions/pre_cooling.py)                *)
(***************************************************************************)
\* a defect: the priority Literal copied from AdjustSetpointInput
PreCoolingPriorities_WithEmergency == {"low", "medium", "high", "emergency"}

PreCoolingPriorities == {"low", "medium", "high"}

\* @field_validator("zone_ids")
PC_validate_zone_ids(v) ==
    IF Len(v) # Cardinality(ToSet(v))
    THEN Fail("zone_ids", "value_error", "Duplicate zone IDs not allowed")
    ELSE IF \E i \in DOMAIN v : Strip(v[i]) = <<>>
    THEN Fail("zone_ids", "value_error", "Zone IDs cannot be empty or whitespace")
    ELSE Ok(v)

PC_zone_ids(p) ==
    IF p.zone_ids = None THEN Fail("zone_ids", "missing", "")
    ELSE IF Len(p.zone_ids[1]) < 1 THEN Fail("zone_ids", "too_short", "")
    ELSE PC_validate_zone_ids(p.zone_ids[1])

\* a defect: 62 itself is refused
PC_validate_target_temp_economics_Strict(v) ==
    IF v <= 62
    THEN Fail("target_temp", "value_error", "too aggressive for pre-cooling")
    ELSE Ok(v)

\* @field_validator("target_temp")
PC_validate_target_temp_economics(v) ==
    IF v < 62
    THEN Fail("target_temp", "value_error", "too aggressive for pre-cooling")
    ELSE Ok(v)

PC_target_temp(p) ==
    IF p.target_temp = None THEN Fail("target_temp", "missing", "")
    ELSE IF ~(p.target_temp[1] >= 60) THEN Fail("target_temp", "greater_than_equal", "")
    ELSE IF ~(p.target_temp[1] <= 75) THEN Fail("target_temp", "less_than_equal", "")
    ELSE PC_validate_target_temp_economics(p.target_temp[1])

PC_start_time(p) ==
    IF p.start_time = None THEN Fail("start_time", "missing", "")
    ELSE IF ~MatchesTimePattern(p.start_time[1])
    THEN Fail("start_time", "string_pattern_mismatch", "")
    ELSE Ok(p.start_time[1])

PC_occupancy_start(p) ==
    IF p.occupancy_start = None THEN Fail("occupancy_start", "missing", "")
    ELSE IF ~MatchesTimePattern(p.occupancy_start[1])
    THEN Fail("occupancy_start", "string_pattern_mismatch", "")
    ELSE Ok(p.occupancy_start[1])

PC_max_rate_delta(p) ==
    IF p.max_rate_delta = None THEN Ok(5)
    ELSE IF ~(p.max_rate_delta[1] >= 1) THEN Fail("max_rate_delta", "greater_than_equal", "")
    ELSE IF ~(p.max_rate_delta[1] <= 10) THEN Fail("max_rate_delta", "less_than_equal", "")
    ELSE Ok(p.max_rate_delta[1])

PC_priority(p) ==
    IF p.priority = None THEN Ok("medium")
    ELSE IF p.priority[1] \notin PreCoolingPriorities THEN Fail("priority", "literal_error", "")
    ELSE Ok(p.priority[1])

PC_enable_adaptive(p) ==
    IF p.enable_adaptive = None THEN Ok(TRUE) ELSE Ok(p.enable_adaptive[1])

PC_cost_limit_usd(p) ==
    IF p.cost_limit_usd = None THEN Ok(None)
    ELSE IF ~(p.cost_limit_usd[1] >= 0) THEN Fail("cost_limit_usd", "greater_than_equal", "")
    ELSE Ok(p.cost_limit_usd)

PC_reason(p) ==
    IF p.reason = None THEN Fail("reason", "missing", "")
    ELSE IF Len(p.reason[1]) < 1 THEN Fail("reason", "string_too_short", "")
    ELSE Ok(p.reason[1])

PC_min_outdoor_temp(p) ==
    IF p.min_outdoor_temp = None THEN Ok(None)
    ELSE IF ~(p.min_outdoor_temp[1] >= -20) THEN Fail("min_outdoor_temp", "greater_than_equal", "")
    ELSE IF ~(p.min_outdoor_temp[1] <= 100) THEN Fail("min_outdoor_temp", "less_than_equal", "")
    ELSE Ok(p.min_outdoor_temp)

PC_max_outdoor_temp(p) ==
    IF p.max_outdoor_temp = None THEN Ok(None)
    ELSE IF ~(p.max_outdoor_temp[1] >= -20) THEN Fail("max_outdoor_temp", "greater_than_equal", "")
    ELSE IF ~(p.max_outdoor_temp[1] <= 120) THEN Fail("max_outdoor_temp", "less_than_equal", "")
    ELSE Ok(p.max_outdoor_temp)

\* a defect: no wrap across midnight
TimeWindow_NoWrap(start_time, occupancy_start) ==
    LET start == ParseTime(start_time)
        occupancy == ParseTime(occupancy_start)
    IN (occupancy.hour * 60 + occupancy.minute) - (start.hour * 60 + start.minute)

\* the window the time-window rule computes, in minutes
TimeWindow(start_time, occupancy_start) ==
    LET start == ParseTime(start_time)
        occupancy == ParseTime(occupancy_start)
        start_minutes == start.hour * 60 + start.minute
        occupancy_minutes == occupancy.hour * 60 + occupancy.minute
        wrapped == IF occupancy_minutes < start_minutes
                   THEN occupancy_minutes + 24 * 60
                   ELSE occupancy_minutes
    IN wrapped - start_minutes

\* @model_validator(mode="after"), first defined.  The fields matched the
\* pattern, so strptime does not raise and the except branch is not taken.
PC_validate_time_window(self) ==
    LET time_window == TimeWindow(self.start_time, self.occupancy_start)
    IN IF time_window < 30
       THEN Some(Error("", "value_error", "Pre-cooling window too short"))
       ELSE IF time_window > 480
       THEN Some(Error("", "value_error", "Pre-cooling window too long"))
       ELSE None

\* @model_validator(mode="after"), second defined
PC_validate_outdoor_temps(self) ==
    IF self.min_outdoor_temp # None /\ self.max_outdoor_temp # None
    THEN IF self.min_outdoor_temp[1] >= self.max_outdoor_temp[1]
         THEN Some(Error("", "value_error", "min_outdoor_temp must be less than max_outdoor_temp"))
         ELSE None
    ELSE None

\* a defect: the outdoor-temperature rule placed before the time-window rule
PC_ModelValidators_Swapped(self) ==
    <<[name |-> "validate_outdoor_temps", err |-> PC_validate_outdoor_temps(self)],
      [name |-> "validate_time_window", err |-> PC_validate_time_window(self)]>>

\* the @model_validator methods of PreCoolingInput, in definition order
PC_ModelValidators(self) ==
    <<[name |-> "validate_time_window", err |-> PC_validate_time_window(self)],
      [name |-> "validate_outdoor_temps", err |-> PC_validate_outdoor_temps(self)]>>

PreCoolingInput(p) ==
    LET zone_ids == PC_zone_ids(p)
        target_temp == PC_target_temp(p)
        start_time == PC_start_time(p)
        occupancy_start == PC_occupancy_start(p)
        max_rate_delta == PC_max_rate_delta(p)
        priority == PC_priority(p)
        enable_adaptive == PC_enable_adaptive(p)
        cost_limit_usd == PC_cost_limit_usd(p)
        reason == PC_reason(p)
        min_outdoor_temp == PC_min_outdoor_temp(p)
        max_outdoor_temp == PC_max_outdoor_temp(p)
        errs == zone_ids.errs \o target_temp.errs \o start_time.errs
                \o occupancy_start.errs \o max_rate_delta.errs \o priority.errs
                \o enable_adaptive.errs \o cost_limit_usd.errs \o reason.errs
                \o min_outdoor_temp.errs \o max_outdoor_temp.errs
    IN IF errs # <<>> THEN FieldFailure(errs)
       ELSE LET self == [zone_ids |-> zone_ids.val[1],
                         target_temp |-> target_temp.val[1],
                         start_time |-> start_time.val[1],
                         occupancy_start |-> occupancy_start.val[1],
                         max_rate_delta |-> max_rate_delta.val[1],
                         priority |-> priority.val[1],
                         enable_adaptive |-> enable_adaptive.val[1],
                         cost_limit_usd |-> cost_limit_usd.val[1],
                         reason |-> reason.val[1],
                         min_outdoor_temp |-> min_outdoor_temp.val[1],
                         max_outdoor_temp |-> max_outdoor_temp.val[1]]
            IN RunModelValidators(self, PC_ModelValidators(self))

\* Requests submitted for PreCoolingInput.
PC_Base ==
    [zone_ids |-> Some(<<Z1>>), target_temp |-> Some(65),
     start_time |-> Some(TimeText(5, 0)), occupancy_start |-> Some(TimeText(8, 0)),
     max_rate_delta |-> None, priority |-> None, enable_adaptive |-> None,
     cost_limit_usd |-> None, reason |-> Some("r"),
     min_outdoor_temp |-> None, max_outdoor_temp |-> None]

\* every "HH:MM" text, and those with the hour or the minute out of range
ClockTexts == {TimeText(h, m) : h \in 0..(23 + Pad), m \in 0..(59 + Pad)}

StartTexts ==
    {TimeText(0, 0), TimeText(5, 0), TimeText(7, 30), TimeText(7, 45), TimeText(23, 0),
     TimeText(23, 59), TimeText(24, 0), TimeText(12, 60), <<"7", ":", "3", "0">>}

\* every occupancy time against the start times
PC_WindowSweep ==
    {[PC_Base EXCEPT !.start_time = Some(st), !.occupancy_start = Some(oc)] :
        st \in StartTexts, oc \in ClockTexts}

\* every target temperature with every priority and zone list
PC_TargetSweep ==
    {[PC_Base EXCEPT !.target_temp = t, !.priority = pr, !.zone_ids = z] :
        t \in Opt((60 - Pad)..(75 + Pad)),
        pr \in Opt(PreCoolingPriorities \cup {"emergency", "urgent"}),
        z \in Opt(ZoneLists)}

\* the outdoor temperature bounds and the remaining single-field constraints
PC_OutdoorSweep ==
    {[PC_Base EXCEPT !.min_outdoor_temp = lo, !.max_outdoor_temp = hi,
                     !.max_rate_delta = rd, !.cost_limit_usd = cl, !.enable_adaptive = ea] :
        lo \in Opt({-20 - Pad, -20, 50, 100, 100 + Pad}),
        hi \in Opt({-20 - Pad, -20, 50, 100, 120, 120 + Pad}),
        rd \in Opt({1 - Pad, 1, 10, 10 + Pad}),
        cl \in Opt({-1, 0}),
        ea \in Opt(BOOLEAN)}

\* combinations of valid, invalid and omitted fields
PC_Mixed ==
    {[PC_Base EXCEPT !.zone_ids = z, !.target_temp = Some(t),
                     !.start_time = Some(w[1]), !.occupancy_start = Some(w[2]),
                     !.priority = pr, !.reason = Some(r),
                     !.min_outdoor_temp = o[1], !.max_outdoor_temp = o[2]] :
        z \in {Some(<<>>), Some(<<Z1>>), Some(<<Z1, Z1>>), Some(<<<<" ">>>>)},
        t \in {59, 61, 65},
        w \in {<<TimeText(23, 0), TimeText(7, 0)>>, <<TimeText(7, 45), TimeText(8, 0)>>,
               <<TimeText(5, 0), TimeText(14, 0)>>, <<TimeText(25, 0), TimeText(8, 0)>>},
        pr \in {None, Some("emergency")},
        r \in {"", "r"},
        o \in {<<None, None>>, <<Some(80), Some(70)>>, <<Some(60), Some(95)>>}}

PreCoolingPayloads ==
    Normal(Normal(Normal(PC_WindowSweep) \cup PC_TargetSweep) \cup PC_OutdoorSweep) \cup PC_Mixed

(***************************************************************************)
(* The rule table of the validator (src/src/services/validator.py), loaded *)
(* when an ActionValidator is constructed.  Whole numbers stand for the    *)
(* bounds written as floats.                                               *)
(***************************************************************************)
_load_validation_rules ==
    [setTemperature |->
         [required_params |-> <<"setpoint">>,
          optional_params |-> <<"mode">>,
          validations |->
              [setpoint |-> [type |-> "number", min |-> 55, max |-> 85, unit |-> "fahrenheit"],
               mode |-> [type |-> "string", enum |-> <<"heat", "cool", "auto", "off">>]]],
     setOccupancyMode |->
         [required_params |-> <<"mode">>,
          optional_params |-> <<>>,
          validations |->
              [mode |-> [type |-> "string", enum |-> <<"occupied", "unoccupied", "standby">>]]],
     adjustVentilation |->
         [required_params |-> <<"rate">>,
          optional_params |-> <<"mode">>,
          validations |->
              [rate |-> [type |-> "number", min |-> 0, max |-> 10000, unit |-> "cfm"],
               mode |-> [type |-> "string",
                         enum |-> <<"constant", "demand-based", "scheduled">>]]],
     enableEconomizer |->
         [required_params |-> <<"enabled">>,
          optional_params |-> <<"min_outdoor_temp", "max_outdoor_temp">>,
          validations |->
              [enabled |-> [type |-> "boolean"],
               min_outdoor_temp |-> [type |-> "number", min |-> -20, max |-> 120],
               max_outdoor_temp |-> [type |-> "number", min |-> -20, max |-> 120]]],
     setLightingLevel |->
         [required_params |-> <<"level">>,
          optional_params |-> <<"duration", "fade_time">>,
          validations |->
              [level |-> [type |-> "number", min |-> 0, max |-> 100, unit |-> "percent"],
               duration |-> [type |-> "number", min |-> 0, max |-> 86400, unit |-> "seconds"],
               fade_time |-> [type |-> "number", min |-> 0, max |-> 300, unit |-> "seconds"]]]]

\* StateManager.__init__
NewStateManager == [_zone_states |-> <<>>, _state_history |-> <<>>, _audit_trail |-> <<>>]

\* _state_manager: Optional[StateManager] = None, in each of the three modules
NoStateManagers == [actions |-> None, building |-> None, audit |-> None]

NoRequest == [action_type |-> "", parameters |-> <<>>, target_zone |-> "", via |-> ""]
NoResponse == [is_valid |-> FALSE, errors |-> None, warnings |-> None]

(***************************************************************************)
(* The request cycle.                                                      *)
(***************************************************************************)
\* The state after the modules are loaded: no request in progress, the
\* global registry constructed by action_descriptor.py and still empty.
Init ==
    /\ phase = "idle"
    /\ kind = "none"
    /\ payload = <<>>
    /\ result = NoResult
    /\ _actions = <<>>
    /\ imported = FALSE
    /\ call = NoCall
    /\ _validation_rules = _load_validation_rules
    /\ vstage = "idle"
    /\ vrequest = NoRequest
    /\ vresponse = NoResponse
    /\ now = 0
    /\ sm = NewStateManager
    /\ smcall = NoCall
    /\ started = FALSE
    /\ _state_manager = NoStateManagers
    /\ _executor = None
    /\ tasks = <<>>
    /\ served = NoCall

SubmitAdjustSetpoint ==
    /\ phase = "idle"
    /\ \E p \in AdjustSetpointPayloads : payload' = p
    /\ kind' = "adjust_setpoint"
    /\ phase' = "submitted"
    /\ UNCHANGED <<result, registryVars, validatorVars, managerVars, serviceVars, now>>

SubmitLoadShed ==
    /\ phase = "idle"
    /\ \E p \in LoadShedPayloads : payload' = p
    /\ kind' = "load_shed"
    /\ phase' = "submitted"
    /\ UNCHANGED <<result, registryVars, validatorVars, managerVars, serviceVars, now>>

SubmitPreCooling ==
    /\ phase = "idle"
    /\ \E p \in PreCoolingPayloads : payload' = p
    /\ kind' = "pre_cooling"
    /\ phase' = "submitted"
    /\ UNCHANGED <<result, registryVars, validatorVars, managerVars, serviceVars, now>>

ConstructAdjustSetpoint ==
    /\ phase = "submitted"
    /\ kind = "adjust_setpoint"
    /\ result' = AdjustSetpointInput(payload)
    /\ phase' = "done"
    /\ UNCHANGED <<kind, payload, registryVars, validatorVars, managerVars, serviceVars, now>>

ConstructLoadShed ==
    /\ phase = "submitted"
    /\ kind = "load_shed"
    /\ result' = LoadShedInput(payload)
    /\ phase' = "done"
    /\ UNCHANGED <<kind, payload, registryVars, validatorVars, managerVars, serviceVars, now>>

ConstructPreCooling ==
    /\ phase = "submitted"
    /\ kind = "pre_cooling"
    /\ result' = PreCoolingInput(payload)
    /\ phase' = "done"
    /\ UNCHANGED <<kind, payload, registryVars, validatorVars, managerVars, serviceVars, now>>

\* The instance (or the error report) is discarded after use.
Discard ==
    /\ phase = "done"
    /\ phase' = "idle"
    /\ kind' = "none"
    /\ payload' = <<>>
    /\ result' = NoResult
    /\ UNCHANGED <<registryVars, validatorVars, managerVars, serviceVars, now>>

Next ==
    \/ SubmitAdjustSetpoint
    \/ ConstructAdjustSetpoint
    \/ SubmitLoadShed
    \/ ConstructLoadShed
    \/ SubmitPreCooling
    \/ ConstructPreCooling
    \/ Discard

Spec == Init /\ [][Next]_vars

(***************************************************************************)
(* Properties.                                                             *)
(***************************************************************************)
Done(k) == phase = "done" /\ kind = k

\* the entries of the report scoped to field loc
ErrsAt(loc) == SelectSeq(result.errors, LAMBDA e : e.loc = loc)

Reported(e) == \E i \in DOMAIN result.errors : result.errors[i] = e

\* the construction failed: an error report and no instance
Rejected == ~result.ok /\ result.instance = None /\ result.errors # <<>>

\* the construction succeeded: an instance and no error
Accepted == result.ok /\ result.instance # None /\ result.errors = <<>>

ComfortRangeError == Error("new_setpoint", "value_error", "outside typical comfort range")

AS_FieldsPass(p) ==
    /\ p.zone_id # None /\ p.zone_id[1] # ""
    /\ p.new_setpoint # None /\ p.new_setpoint[1] \in 60..80
    /\ p.reason # None /\ p.reason[1] # ""
    /\ p.priority # None => p.priority[1] \in {"low", "medium", "high", "emergency"}
    /\ p.max_change # None => p.max_change[1] \in 1..15
    /\ p.current_setpoint # None => p.current_setpoint[1] \in 50..90

\* C2: when every field passes its own constraints, AdjustSetpointInput is
\* constructed if and only if current_setpoint is absent or
\* |new_setpoint - current_setpoint| <= max_change (5 when omitted), and
\* the instance holds the supplied values, priority medium and max_change 5
\* standing in for omitted fields.
C2_ChangeWithinLimitRoundTrips ==
    (Done("adjust_setpoint") /\ AS_FieldsPass(payload)) =>
        LET limit == IF payload.max_change = None THEN 5 ELSE payload.max_change[1]
            within == \/ payload.current_setpoint = None
                      \/ /\ payload.new_setpoint[1] - payload.current_setpoint[1] <= limit
                         /\ payload.current_setpoint[1] - payload.new_setpoint[1] <= limit
        IN /\ Accepted <=> within
           /\ ~within => Rejected
           /\ Accepted =>
                result.instance[1] =
                    [zone_id |-> payload.zone_id[1],
                     new_setpoint |-> payload.new_setpoint[1],
                     reason |-> payload.reason[1],
                     priority |-> IF payload.priority = None THEN "medium"
                                  ELSE payload.priority[1],
                     max_change |-> limit,
                     current_setpoint |-> payload.current_setpoint]

C2_Witness ==
    /\ Done("adjust_setpoint")
    /\ payload.new_setpoint = Some(70)
    /\ payload.current_setpoint = Some(65)
    /\ payload.max_change = None
    /\ payload.priority = None
    /\ Accepted
    /\ result.instance[1].max_change = 5
    /\ result.instance[1].priority = "medium"

DurationCapError ==
    Error("duration_minutes", "value_error", "should not exceed 120 minutes duration")

\* C3: with a valid shed_level s, LoadShedInput reports no duration error
\* exactly when 1 <= d <= 240 and (s >= 4 implies d <= 120); when shed_level
\* fails validation a duration in 1..240 gets no duration error.
C3_DurationCapByLevel ==
    (Done("load_shed") /\ payload.duration_minutes # None) =>
        LET d == payload.duration_minutes[1]
            levelValid == payload.shed_level # None /\ payload.shed_level[1] \in 1..5
        IN /\ levelValid =>
                (ErrsAt("duration_minutes") = <<>>
                    <=> (1 <= d /\ d <= 240 /\ (payload.shed_level[1] >= 4 => d <= 120)))
           /\ (levelValid /\ payload.shed_level[1] >= 4 /\ 120 < d /\ d <= 240) =>
                ErrsAt("duration_minutes") = <<DurationCapError>>
           /\ (~levelValid /\ 1 <= d /\ d <= 240) => ErrsAt("duration_minutes") = <<>>

C3_Witness ==
    /\ Done("load_shed")
    /\ payload.shed_level = Some(4)
    /\ payload.duration_minutes = Some(121)
    /\ result.errors = <<DurationCapError>>

\* minutes since midnight of a pattern-valid time text
MinutesOf(s) == LET t == ParseTime(s) IN 60 * t.hour + t.minute

WindowTooShort == Error("", "value_error", "Pre-cooling window too short")
WindowTooLong == Error("", "value_error", "Pre-cooling window too long")

\* the time-window rule ran on the instance and raised nothing
WindowAccepted ==
    /\ result.ran # <<>> /\ result.ran[1] = "validate_time_window"
    /\ ~Reported(WindowTooShort) /\ ~Reported(WindowTooLong)

\* C4: for start_time and occupancy_start in HH:MM form (and every field
\* passing its own checks) the time-window rule accepts exactly the pairs
\* with 30 <= w <= 480, w being occupancy minus start modulo 1440: 23:00 to
\* 07:00 and 07:30 to 08:00 pass, 07:45 to 08:00 and equal times are too
\* short, 05:00 to 14:00 is too long.
C4_TimeWindowWraps ==
    (/\ Done("pre_cooling")
     /\ payload.start_time # None /\ payload.occupancy_start # None
     /\ MatchesTimePattern(payload.start_time[1])
     /\ MatchesTimePattern(payload.occupancy_start[1])
     /\ \A i \in DOMAIN result.errors : result.errors[i].loc = "") =>
        LET st == payload.start_time[1]
            oc == payload.occupancy_start[1]
            w == (MinutesOf(oc) - MinutesOf(st)) % 1440
        IN /\ (30 <= w /\ w <= 480) <=> WindowAccepted
           /\ w < 30 <=> result.errors = <<WindowTooShort>>
           /\ w > 480 <=> result.errors = <<WindowTooLong>>
           /\ (st = TimeText(23, 0) /\ oc = TimeText(7, 0)) => (w = 480 /\ WindowAccepted)
           /\ (st = TimeText(7, 30) /\ oc = TimeText(8, 0)) => (w = 30 /\ WindowAccepted)
           /\ (st = TimeText(7, 45) /\ oc = TimeText(8, 0)) => result.errors = <<WindowTooShort>>
           /\ (st = TimeText(5, 0) /\ oc = TimeText(14, 0)) => result.errors = <<WindowTooLong>>
           /\ st = oc => result.errors = <<WindowTooShort>>

C4_Witness ==
    /\ Done("pre_cooling")
    /\ payload.start_time = Some(TimeText(23, 0))
    /\ payload.occupancy_start = Some(TimeText(7, 0))
    /\ WindowAccepted
    /\ Accepted

\* C5: LoadShedInput and PreCoolingInput report no zone_ids error exactly
\* when the list has at least one element, no two elements are equal and no
\* element is empty or made of whitespace only.
C5_ZoneIdsUniqueNonBlank ==
    ((Done("load_shed") \/ Done("pre_cooling")) /\ payload.zone_ids # None) =>
        LET v == payload.zone_ids[1]
            blank(z) == \A k \in DOMAIN z : z[k] \in {" ", "\t", "\n"}
        IN ErrsAt("zone_ids") = <<>>
             <=> /\ Len(v) >= 1
                 /\ \A i, j \in DOMAIN v : i # j => v[i] # v[j]
                 /\ \A i \in DOMAIN v : ~blank(v[i])

C5_Witness ==
    /\ Done("pre_cooling")
    /\ payload.zone_ids = Some(<<Z1, <<" ">>>>)
    /\ ErrsAt("zone_ids") =
           <<Error("zone_ids", "value_error", "Zone IDs cannot be empty or whitespace")>>

\* C6: once every field-level check has passed, LoadShedInput is accepted
\* if and only if max_comfort_temp - min_comfort_temp >= 5 (68 and 78 when
\* omitted) and no zone id is in both zone_ids and priority_zones.
C6_ComfortRangeAndPriorityZones ==
    (Done("load_shed") /\ \A i \in DOMAIN result.errors : result.errors[i].loc = "") =>
        LET lo == IF payload.min_comfort_temp = None THEN 68 ELSE payload.min_comfort_temp[1]
            hi == IF payload.max_comfort_temp = None THEN 78 ELSE payload.max_comfort_temp[1]
            pz == IF payload.priority_zones = None THEN <<>> ELSE payload.priority_zones[1]
            shared == {z \in ToSet(payload.zone_ids[1]) : \E i \in DOMAIN pz : pz[i] = z}
        IN /\ Accepted <=> (hi - lo >= 5 /\ shared = {})
           /\ ~Accepted => Rejected
           /\ (lo = 70 /\ hi = 74) => Rejected
           /\ (lo = 68 /\ hi = 78 /\ pz = <<>>) => Accepted

C6_Witness ==
    /\ Done("load_shed")
    /\ payload.min_comfort_temp = Some(70)
    /\ payload.max_comfort_temp = Some(74)
    /\ result.errors = <<Error("", "value_error", "Comfort temperature range is too narrow")>>

EconomicsError == Error("target_temp", "value_error", "too aggressive for pre-cooling")

\* C7: PreCoolingInput reports, for target_temp, the economics error alone
\* on [60,62), the base range error alone below 60 and above 75, and no
\* error from 62 to 75.
C7_TargetTempEconomicsFloor ==
    (Done("pre_cooling") /\ payload.target_temp # None) =>
        LET t == payload.target_temp[1]
        IN /\ (60 <= t /\ t < 62) => (Rejected /\ ErrsAt("target_temp") = <<EconomicsError>>)
           /\ t < 60 => ErrsAt("target_temp") = <<Error("target_temp", "greater_than_equal", "")>>
           /\ t > 75 => ErrsAt("target_temp") = <<Error("target_temp", "less_than_equal", "")>>
           /\ (62 <= t /\ t <= 75) => ErrsAt("target_temp") = <<>>

C7_Witness ==
    /\ Done("pre_cooling")
    /\ payload.target_temp = Some(61)
    /\ result.errors = <<EconomicsError>>

\* C8: PreCoolingInput with priority emergency fails with the enum
\* membership error on priority whatever the other fields are, while
\* AdjustSetpointInput reports no priority error for emergency and keeps it
\* in the instance.
C8_EmergencyPriorityIsStructural ==
    /\ (Done("pre_cooling") /\ payload.priority = Some("emergency")) =>
           (Rejected /\ ErrsAt("priority") = <<Error("priority", "literal_error", "")>>)
    /\ (Done("adjust_setpoint") /\ payload.priority = Some("emergency")) =>
           /\ ErrsAt("priority") = <<>>
           /\ Accepted => result.instance[1].priority = "emergency"

C8_Witness ==
    /\ Done("pre_cooling")
    /\ payload.priority = Some("emergency")
    /\ payload.target_temp = Some(65)
    /\ payload.zone_ids = Some(<<Z1>>)
    /\ result.errors = <<Error("priority", "literal_error", "")>>

(***************************************************************************)
(* The structural constraints of the three input models, as the field      *)
(* tables of the specification state them: the set of structural errors a  *)
(* payload must produce.                                                   *)
(***************************************************************************)
StructuralTypes ==
    {"missing", "string_too_short", "too_short", "literal_error", "greater_than",
     "greater_than_equal", "less_than_equal", "string_pattern_mismatch"}

IsStructural(e) == e.type \in StructuralTypes

Required(p, f) == IF p[f] = None THEN {Error(f, "missing", "")} ELSE {}

NonEmptyText(p, f) ==
    IF p[f] # None /\ p[f][1] = "" THEN {Error(f, "string_too_short", "")} ELSE {}

NonEmptyList(p, f) ==
    IF p[f] # None /\ p[f][1] = <<>> THEN {Error(f, "too_short", "")} ELSE {}

Between(p, f, lo, hi) ==
    IF p[f] = None THEN {}
    ELSE IF p[f][1] < lo THEN {Error(f, "greater_than_equal", "")}
    ELSE IF p[f][1] > hi THEN {Error(f, "less_than_equal", "")}
    ELSE {}

AtLeast(p, f, lo) ==
    IF p[f] # None /\ p[f][1] < lo THEN {Error(f, "greater_than_equal", "")} ELSE {}

\* exclusive lower bound, inclusive upper bound
Above(p, f, lo, hi) ==
    IF p[f] = None THEN {}
    ELSE IF p[f][1] <= lo THEN {Error(f, "greater_than", "")}
    ELSE IF p[f][1] > hi THEN {Error(f, "less_than_equal", "")}
    ELSE {}

OneOf(p, f, S) ==
    IF p[f] # None /\ p[f][1] \notin S THEN {Error(f, "literal_error", "")} ELSE {}

EachOneOf(p, f, S) ==
    IF p[f] = None THEN {}
    ELSE {Error(f, "literal_error", p[f][1][i]) : i \in {j \in DOMAIN p[f][1] : p[f][1][j] \notin S}}

ClockText(p, f) ==
    IF p[f] # None /\ ~MatchesTimePattern(p[f][1])
    THEN {Error(f, "string_pattern_mismatch", "")} ELSE {}

StructuralViolations(k, p) ==
    IF k = "adjust_setpoint" THEN
        Required(p, "zone_id") \cup NonEmptyText(p, "zone_id")
        \cup Required(p, "new_setpoint") \cup Between(p, "new_setpoint", 50, 90)
        \cup Required(p, "reason") \cup NonEmptyText(p, "reason")
        \cup OneOf(p, "priority", {"low", "medium", "high", "emergency"})
        \cup Above(p, "max_change", 0, 15)
        \cup Between(p, "current_setpoint", 50, 90)
    ELSE IF k = "load_shed" THEN
        Required(p, "zone_ids") \cup NonEmptyList(p, "zone_ids")
        \cup Required(p, "shed_level") \cup OneOf(p, "shed_level", 1..5)
        \cup Required(p, "duration_minutes") \cup Above(p, "duration_minutes", 0, 240)
        \cup EachOneOf(p, "equipment_types",
                       {"hvac", "lighting", "fan", "pump", "chiller", "boiler"})
        \cup Required(p, "reason") \cup NonEmptyText(p, "reason")
        \cup Between(p, "min_comfort_temp", 60, 75)
        \cup Between(p, "max_comfort_temp", 70, 85)
        \cup AtLeast(p, "expected_savings_kw", 0)
    ELSE
        Required(p, "zone_ids") \cup NonEmptyList(p, "zone_ids")
        \cup Required(p, "target_temp") \cup Between(p, "target_temp", 60, 75)
        \cup Required(p, "start_time") \cup ClockText(p, "start_time")
        \cup Required(p, "occupancy_start") \cup ClockText(p, "occupancy_start")
        \cup Between(p, "max_rate_delta", 1, 10)
        \cup OneOf(p, "priority", {"low", "medium", "high"})
        \cup AtLeast(p, "cost_limit_usd", 0)
        \cup Required(p, "reason") \cup NonEmptyText(p, "reason")
        \cup Between(p, "min_outdoor_temp", -20, 100)
        \cup Between(p, "max_outdoor_temp", -20, 120)

ReportedStructural == {e \in ToSet(result.errors) : IsStructural(e)}

OutdoorOrderError ==
    Error("", "value_error", "min_outdoor_temp must be less than max_outdoor_temp")

\* the errors of the rules whose outcome depends on more than one field
CrossFieldErrors ==
    {Error("", "value_error", "exceeds max_change limit"),
     Error("", "value_error", "min_comfort_temp must be less than max_comfort_temp"),
     Error("", "value_error", "Comfort temperature range is too narrow"),
     Error("", "value_error", "Priority zones cannot be in shed zone list"),
     DurationCapError, WindowTooShort, WindowTooLong, OutdoorOrderError}

\* the errors raised by the rules written as model validators
ModelLevelErrors == CrossFieldErrors \ {DurationCapError}

\* Construction yields an instance or a report, never both, and the report
\* holds every structural violation of the payload and no other structural
\* error.
AllOrNothing ==
    phase = "done" =>
        /\ Accepted \/ Rejected
        /\ ReportedStructural = StructuralViolations(kind, payload)

\* C9 as stated: every construction yields an instance or a report with all
\* structural violations, every cross-field rule (the level-dependent
\* duration cap included) is evaluated only after the fields passed their
\* structural checks, and no report holds both a structural error and a
\* cross-field error.
C9_Original_NeverMixed ==
    /\ AllOrNothing
    /\ phase = "done" =>
           ~(\E e \in ToSet(result.errors) : e \in CrossFieldErrors /\ ReportedStructural # {})

\* C9 amended: every construction yields an instance or a report with all
\* structural violations; the rules written as model validators run only
\* after every field passed, so their error is alone in the report; the
\* duration cap, a field validator, is reported only when duration_minutes
\* and shed_level passed their own structural checks, possibly next to the
\* structural errors of other fields.
C9_ModelRulesAfterFields ==
    /\ AllOrNothing
    /\ phase = "done" =>
           /\ result.ran # <<>> =>
                  /\ StructuralViolations(kind, payload) = {}
                  /\ \A i \in DOMAIN result.errors : result.errors[i] \in ModelLevelErrors
           /\ (\E e \in ToSet(result.errors) : e \in ModelLevelErrors) =>
                  (Len(result.errors) = 1 /\ result.ran # <<>>)
           /\ Reported(DurationCapError) =>
                  \A e \in ReportedStructural : e.loc \notin {"duration_minutes", "shed_level"}

C9_Witness ==
    /\ Done("load_shed")
    /\ payload.zone_ids = Some(<<>>)
    /\ payload.reason = Some("")
    /\ payload.shed_level = Some(5)
    /\ payload.duration_minutes = Some(150)
    /\ Reported(DurationCapError)
    /\ Reported(Error("zone_ids", "too_short", ""))
    /\ Reported(Error("reason", "string_too_short", ""))

(***************************************************************************)
(* The rules of PreCoolingInput, decided on the payload.                   *)
(***************************************************************************)
ZoneIdsError ==
    {Error("zone_ids", "value_error", "Duplicate zone IDs not allowed"),
     Error("zone_ids", "value_error", "Zone IDs cannot be empty or whitespace")}

PC_ZoneRuleFails(p) ==
    /\ p.zone_ids # None /\ p.zone_ids[1] # <<>>
    /\ \/ \E i, j \in DOMAIN p.zone_ids[1] : i # j /\ p.zone_ids[1][i] = p.zone_ids[1][j]
       \/ \E i \in DOMAIN p.zone_ids[1] :
              \A k \in DOMAIN p.zone_ids[1][i] : p.zone_ids[1][i][k] \in {" ", "\t", "\n"}

PC_WindowRuleFails(p) ==
    /\ p.start_time # None /\ MatchesTimePattern(p.start_time[1])
    /\ p.occupancy_start # None /\ MatchesTimePattern(p.occupancy_start[1])
    /\ LET w == (MinutesOf(p.occupancy_start[1]) - MinutesOf(p.start_time[1])) % 1440
       IN w < 30 \/ w > 480

PC_OutdoorRuleFails(p) ==
    /\ p.min_outdoor_temp # None /\ p.min_outdoor_temp[1] \in -20..100
    /\ p.max_outdoor_temp # None /\ p.max_outdoor_temp[1] \in -20..120
    /\ p.min_outdoor_temp[1] >= p.max_outdoor_temp[1]

PC_EconomicsRuleFails(p) ==
    p.target_temp # None /\ p.target_temp[1] \in 60..61

\* the stage, in the stated order, an error of a PreCoolingInput report belongs to
PC_StageOf(e) ==
    IF IsStructural(e) THEN 1
    ELSE IF e \in ZoneIdsError THEN 2
    ELSE IF e \in {WindowTooShort, WindowTooLong} THEN 3
    ELSE IF e = OutdoorOrderError THEN 4
    ELSE 5

PC_FailingStages(p) ==
    {n \in 1..5 :
        \/ n = 1 /\ StructuralViolations("pre_cooling", p) # {}
        \/ n = 2 /\ PC_ZoneRuleFails(p)
        \/ n = 3 /\ PC_WindowRuleFails(p)
        \/ n = 4 /\ PC_OutdoorRuleFails(p)
        \/ n = 5 /\ PC_EconomicsRuleFails(p)}

\* C10 as stated: the stages run in the order structural checks, zone-id
\* uniqueness, time window, outdoor-temperature ordering, economics floor,
\* and a failing payload reports the errors of its earliest failing stage.
C10_Original_StatedOrder ==
    Done("pre_cooling") =>
        LET failing == PC_FailingStages(payload)
        IN IF failing = {} THEN Accepted
           ELSE /\ Rejected
                /\ \A i \in DOMAIN result.errors :
                       /\ PC_StageOf(result.errors[i]) \in failing
                       /\ \A n \in failing : PC_StageOf(result.errors[i]) <= n

\* C10 amended: the field stage runs first and reports together the
\* structural errors, the zone-id uniqueness error and the economics-floor
\* error; only when no field failed the time-window rule runs, then the
\* outdoor-temperature ordering, the first of the two that fails being the
\* only error reported.  A payload violating the time-window rule and the
\* economics floor reports the economics error.
C10_FieldStageThenWindowThenOutdoor ==
    Done("pre_cooling") =>
        LET structural == StructuralViolations("pre_cooling", payload)
            fieldFails == \/ structural # {}
                          \/ PC_ZoneRuleFails(payload)
                          \/ PC_EconomicsRuleFails(payload)
        IN IF fieldFails
           THEN /\ Rejected
                /\ result.ran = <<>>
                /\ ReportedStructural = structural
                /\ PC_ZoneRuleFails(payload) <=> (\E e \in ZoneIdsError : Reported(e))
                /\ PC_EconomicsRuleFails(payload) <=> Reported(EconomicsError)
                /\ \A i \in DOMAIN result.errors : result.errors[i].loc # ""
           ELSE IF PC_WindowRuleFails(payload)
           THEN /\ result.errors \in {<<WindowTooShort>>, <<WindowTooLong>>}
                /\ result.ran = <<"validate_time_window">>
           ELSE IF PC_OutdoorRuleFails(payload)
           THEN /\ result.errors = <<OutdoorOrderError>>
                /\ result.ran = <<"validate_time_window", "validate_outdoor_temps">>
           ELSE /\ Accepted
                /\ result.ran = <<"validate_time_window", "validate_outdoor_temps">>

C10_Witness ==
    /\ Done("pre_cooling")
    /\ payload.target_temp = Some(61)
    /\ payload.start_time = Some(TimeText(7, 45))
    /\ payload.occupancy_start = Some(TimeText(8, 0))
    /\ PC_WindowRuleFails(payload)
    /\ result.errors = <<EconomicsError>>

(***************************************************************************)
(* The rules of LoadShedInput, decided on the payload.                     *)
(***************************************************************************)
LS_ZoneRuleFails(p) == PC_ZoneRuleFails(p)

LS_ComfortRuleFails(p) ==
    LET lo == IF p.min_comfort_temp = None THEN 68 ELSE p.min_comfort_temp[1]
        hi == IF p.max_comfort_temp = None THEN 78 ELSE p.max_comfort_temp[1]
    IN lo \in 60..75 /\ hi \in 70..85 /\ hi - lo < 5

LS_PriorityRuleFails(p) ==
    /\ p.zone_ids # None /\ p.priority_zones # None
    /\ ToSet(p.zone_ids[1]) \cap ToSet(p.priority_zones[1]) # {}

LS_CapRuleFails(p) ==
    /\ p.shed_level # None /\ p.shed_level[1] \in 4..5
    /\ p.duration_minutes # None /\ p.duration_minutes[1] \in 121..240

LS_ComfortErrors ==
    {Error("", "value_error", "min_comfort_temp must be less than max_comfort_temp"),
     Error("", "value_error", "Comfort temperature range is too narrow")}

PriorityZonesError == Error("", "value_error", "Priority zones cannot be in shed zone list")

\* the stage, in the stated order, a cross-field error of a LoadShedInput
\* report belongs to (0 for a structural error)
LS_StageOf(e) ==
    IF e \in ZoneIdsError THEN 1
    ELSE IF e \in LS_ComfortErrors THEN 2
    ELSE IF e = PriorityZonesError THEN 3
    ELSE IF e = DurationCapError THEN 4
    ELSE 0

LS_FailingStages(p) ==
    {n \in 1..4 :
        \/ n = 1 /\ LS_ZoneRuleFails(p)
        \/ n = 2 /\ LS_ComfortRuleFails(p)
        \/ n = 3 /\ LS_PriorityRuleFails(p)
        \/ n = 4 /\ LS_CapRuleFails(p)}

\* C11 as stated: on a payload whose fields pass their structural checks
\* the cross-field rules run in the order zone-id uniqueness, comfort
\* range, priority-zone overlap, duration cap, and the report holds the
\* error of the earliest failing rule only; a payload violating the comfort
\* range and the duration cap reports the comfort-range error.
C11_Original_StatedOrder ==
    (Done("load_shed") /\ StructuralViolations("load_shed", payload) = {}) =>
        LET failing == LS_FailingStages(payload)
        IN IF failing = {} THEN Accepted
           ELSE /\ Rejected
                /\ Len(result.errors) = 1
                /\ LS_StageOf(result.errors[1]) \in failing
                /\ \A n \in failing : LS_StageOf(result.errors[1]) <= n

\* C11 amended: the zone-id rule and the level-dependent duration cap are
\* field validators; they run in the field stage, are reported together
\* with the structural errors of the other fields, and stop the model
\* validators from running.  Only when no field failed the comfort-range
\* rule runs, then the priority-zone overlap, the first of the two that
\* fails being the only error reported.  A payload violating the
\* comfort-range rule and the duration cap reports the duration-cap error.
C11_FieldStageThenComfortThenPriority ==
    Done("load_shed") =>
        LET structural == StructuralViolations("load_shed", payload)
            fieldFails == \/ structural # {}
                          \/ LS_ZoneRuleFails(payload)
                          \/ LS_CapRuleFails(payload)
        IN IF fieldFails
           THEN /\ Rejected
                /\ result.ran = <<>>
                /\ ReportedStructural = structural
                /\ LS_ZoneRuleFails(payload) <=> (\E e \in ZoneIdsError : Reported(e))
                /\ LS_CapRuleFails(payload) <=> Reported(DurationCapError)
                /\ \A i \in DOMAIN result.errors : result.errors[i].loc # ""
           ELSE IF LS_ComfortRuleFails(payload)
           THEN /\ Len(result.errors) = 1 /\ result.errors[1] \in LS_ComfortErrors
                /\ result.ran = <<"validate_comfort_range">>
           ELSE IF LS_PriorityRuleFails(payload)
           THEN /\ result.errors = <<PriorityZonesError>>
                /\ result.ran = <<"validate_comfort_range", "validate_priority_zones">>
           ELSE /\ Accepted
                /\ result.ran = <<"validate_comfort_range", "validate_priority_zones">>

C11_Witness ==
    /\ Done("load_shed")
    /\ payload.min_comfort_temp = Some(74)
    /\ payload.max_comfort_temp = Some(76)
    /\ payload.shed_level = Some(5)
    /\ payload.duration_minutes = Some(150)
    /\ LS_ComfortRuleFails(payload) /\ LS_CapRuleFails(payload)
    /\ result.errors = <<DurationCapError>>

(***************************************************************************)
(* The action registry (src/src/models/action_descriptor.py) and the       *)
(* shipped descriptors (src/src/models/descriptors/*.py).                  *)
(*                                                                         *)
(* A descriptor is a record of the attributes the registry, the compliance *)
(* tests and the executor read.  A Python dict with string keys is a       *)
(* record (the empty dict is <<>>), a list is a sequence.  The registry's  *)
(* dict _actions keeps insertion order, which list_all() exposes, so it is *)
(* the sequence of its values; the key of a value is its action_id.        *)
(* Characters outside ASCII are left out of the texts.                     *)
(***************************************************************************)
UIField(field_name, field_type, required) ==
    [field_name |-> field_name, field_type |-> field_type, required |-> required]

adjust_setpoint_descriptor ==
    [action_id |-> "adjust-setpoint",
     action_type |-> "control",
     ui_fields |-> <<UIField("user_role", "select", TRUE),
                     UIField("zone_id", "zone-selector", TRUE),
                     UIField("new_setpoint", "number", TRUE),
                     UIField("priority", "select", TRUE),
                     UIField("reason", "text", FALSE)>>,
     graph_nodes |-> <<"action:adjust-setpoint", "constraint:setpoint-range",
                       "constraint:max-delta", "constraint:operator-limit",
                       "policy:operator-restrictions", "policy:contractor-restrictions">>,
     audit_descriptor |->
         [summary_template |-> "{zone_id} setpoint changed to {new_setpoint}F (Priority: {priority})"],
     shacl_constraints |-> <<"Setpoint range: 60-80F (comfort)",
                             "Max delta: 5F for operators, 15F for managers",
                             "Server room protection: 15-25C critical range",
                             "Occupancy constraints enforced">>,
     odrl_policies |->
         [operator |-> [permitted |-> TRUE,
                        constraints |-> <<"max_delta: 5F", "priority: low/medium only",
                                          "no_emergency_override: true">>],
          facility_manager |-> [permitted |-> TRUE,
                                constraints |-> <<"max_delta: 15F", "priority: all levels",
                                                  "emergency_override: true">>],
          energy_manager |-> [permitted |-> TRUE,
                              constraints |-> <<"max_delta: 15F", "priority: all levels",
                                                "emergency_override: true",
                                                "optimization_access: true">>],
          contractor |-> [permitted |-> TRUE,
                          constraints |-> <<"max_delta: 15F", "priority: low/medium only",
                                            "no_emergency_override: true",
                                            "temporary_access: true">>]],
     handler_function |-> "_handle_set_temperature",
     validation_class |-> "AdjustSetpointInput"]

\* a defect: the contractor is denied without a reason
load_shed_odrl_policies_NoReason ==
    [operator |-> [permitted |-> TRUE,
                   constraints |-> <<"max_shed_level: 3", "max_duration: 120",
                                     "requires_authorization: facility_manager">>],
     facility_manager |-> [permitted |-> TRUE,
                           constraints |-> <<"max_shed_level: 3", "max_duration: 240",
                                             "emergency_override: true">>],
     energy_manager |-> [permitted |-> TRUE,
                         constraints |-> <<"max_shed_level: 5", "max_duration: 240",
                                           "level_45_duration: 120",
                                           "demand_response_authority: true">>],
     contractor |-> [permitted |-> FALSE]]

\* odrl_policies of load_shed_descriptor
load_shed_odrl_policies ==
    [operator |-> [permitted |-> TRUE,
                   constraints |-> <<"max_shed_level: 3", "max_duration: 120",
                                     "requires_authorization: facility_manager">>],
     facility_manager |-> [permitted |-> TRUE,
                           constraints |-> <<"max_shed_level: 3", "max_duration: 240",
                                             "emergency_override: true">>],
     energy_manager |-> [permitted |-> TRUE,
                         constraints |-> <<"max_shed_level: 5", "max_duration: 240",
                                           "level_45_duration: 120",
                                           "demand_response_authority: true">>],
     contractor |-> [permitted |-> FALSE,
                     reason |-> "Load shedding requires operational authority"]]

load_shed_descriptor ==
    [action_id |-> "load-shed",
     action_type |-> "demand_response",
     ui_fields |-> <<UIField("user_role", "select", TRUE),
                     UIField("shed_level", "number", TRUE),
                     UIField("duration", "number", TRUE),
                     UIField("reason", "text", FALSE)>>,
     graph_nodes |-> <<"action:load-shed", "constraint:shed-level-range",
                       "constraint:duration-limits", "constraint:occupancy-protection",
                       "policy:energy-manager-level-45">>,
     audit_descriptor |->
         [summary_template |-> "Load shed level {shed_level} for {duration} minutes"],
     shacl_constraints |-> <<"Shed level: 1-5 discrete levels",
                             "Duration: Max 240 minutes, Level 4-5 max 120 minutes",
                             "Occupancy-aware: Min 40% illumination when occupied",
                             "Server room exemption enforced">>,
     odrl_policies |-> load_shed_odrl_policies,
     handler_function |-> "_handle_load_shed",
     validation_class |-> "LoadShedInput"]

pre_cooling_descriptor ==
    [action_id |-> "pre-cooling",
     action_type |-> "optimization",
     ui_fields |-> <<UIField("user_role", "select", TRUE),
                     UIField("zone_ids", "multi-select", TRUE),
                     UIField("target_temp", "number", TRUE),
                     UIField("start_time", "time", TRUE),
                     UIField("occupancy_start", "time", TRUE),
                     UIField("max_rate_delta", "number", TRUE),
                     UIField("electricity_rate", "number", TRUE),
                     UIField("enable_adaptive", "checkbox", FALSE),
                     UIField("reason", "text", TRUE)>>,
     graph_nodes |-> <<"action:pre-cooling", "constraint:target-temp-range",
                       "constraint:time-window", "constraint:cooling-rate",
                       "constraint:economics-validation", "policy:operator-denied",
                       "policy:fm-zone-limit", "policy:fm-cost-limit",
                       "policy:contractor-denied">>,
     audit_descriptor |->
         [summary_template |->
              "{zone_count} zones pre-cooled to {target_temp}F (Cost: ${estimated_cost})"],
     shacl_constraints |-> <<"Target temperature: 60-75F (>=62F for economics)",
                             "Time window: 30 minutes to 8 hours",
                             "Max cooling rate: 1-10F/hr",
                             "No duplicate zones, no empty zone IDs",
                             "Time format: HH:MM (24-hour)",
                             "Overnight windows supported">>,
     odrl_policies |->
         [operator |-> [permitted |-> FALSE,
                        reason |-> "Pre-cooling requires optimization expertise"],
          facility_manager |-> [permitted |-> TRUE,
                                constraints |-> <<"max_zones: 3", "max_cost: $50",
                                                  "priority: low/medium only">>],
          energy_manager |-> [permitted |-> TRUE,
                              constraints |-> <<"max_zones: unlimited", "max_cost: $500",
                                                "priority: low/medium/high",
                                                "optimization_authority: true">>],
          contractor |-> [permitted |-> FALSE,
                          reason |-> "Pre-cooling requires building system knowledge"]],
     handler_function |-> "_handle_pre_cooling",
     validation_class |-> "PreCoolingInput"]

\* Descriptors registered by callers other than the shipped modules: any of
\* the seven attributes validate_completeness() reads may be empty.
CompletenessParts ==
    {"ui_fields", "graph_nodes", "summary_template", "shacl_constraints",
     "odrl_policies", "handler_function", "validation_class"}

TestDescriptor(action_id, empty) ==
    [action_id |-> action_id,
     action_type |-> "control",
     ui_fields |-> IF "ui_fields" \in empty THEN <<>> ELSE <<UIField("zone_id", "text", TRUE)>>,
     graph_nodes |-> IF "graph_nodes" \in empty THEN <<>> ELSE <<"action:test">>,
     audit_descriptor |->
         [summary_template |-> IF "summary_template" \in empty THEN "" ELSE "{zone_id}"],
     shacl_constraints |-> IF "shacl_constraints" \in empty THEN <<>> ELSE <<"c">>,
     odrl_policies |-> IF "odrl_policies" \in empty THEN <<>>
                       ELSE [operator |-> [permitted |-> TRUE]],
     handler_function |-> IF "handler_function" \in empty THEN "" ELSE "_handle_test",
     validation_class |-> IF "validation_class" \in empty THEN "" ELSE "TestInput"]

TestIds == {"test-action"}
ShippedIds == {"adjust-setpoint", "load-shed", "pre-cooling"}
\* "no-such-action" is never registered
LookupIds == TestIds \cup ShippedIds \cup {"no-such-action"}

RegisterChoices == {TestDescriptor(id, empty) : id \in TestIds, empty \in SUBSET CompletenessParts}

\* a defect: the registry keeps every registration
register_Append(acts, descriptor) == Append(acts, descriptor)

\* a defect: the key is stored with a descriptor still being filled in
register_KeyBeforeValue(acts, descriptor) ==
    LET partial == [descriptor EXCEPT !.action_type = "", !.ui_fields = <<>>]
    IN IF \E i \in DOMAIN acts : acts[i].action_id = descriptor.action_id
       THEN [i \in DOMAIN acts |->
                 IF acts[i].action_id = descriptor.action_id THEN partial ELSE acts[i]]
       ELSE Append(acts, partial)

\* self._actions[descriptor.action_id] = descriptor: an existing key keeps
\* its place in the dict, a new key goes last
register(acts, descriptor) ==
    IF \E i \in DOMAIN acts : acts[i].action_id = descriptor.action_id
    THEN [i \in DOMAIN acts |->
              IF acts[i].action_id = descriptor.action_id THEN descriptor ELSE acts[i]]
    ELSE Append(acts, descriptor)

\* self._actions.get(action_id)
get(acts, action_id) ==
    IF \E i \in DOMAIN acts : acts[i].action_id = action_id
    THEN Some(acts[CHOOSE i \in DOMAIN acts : acts[i].action_id = action_id])
    ELSE None

\* list(self._actions.values())
list_all(acts) == acts

ErrorIf(cond, msg) == IF cond THEN <<msg>> ELSE <<>>

\* a defect: the check stops at the first empty attribute
validate_completeness_FirstOnly(acts, action_id) ==
    LET found == get(acts, action_id)
    IN IF found = None
       THEN [is_valid |-> FALSE,
             errors |-> <<"Action '" \o action_id \o "' not found in registry">>]
       ELSE LET descriptor == found[1]
                errors ==
                    ErrorIf(descriptor.ui_fields = <<>>, "No UI fields defined")
                    \o ErrorIf(descriptor.graph_nodes = <<>>, "No graph nodes defined")
                    \o ErrorIf(descriptor.audit_descriptor.summary_template = "",
                               "No audit summary template defined")
                    \o ErrorIf(descriptor.shacl_constraints = <<>>, "No SHACL constraints defined")
                    \o ErrorIf(descriptor.odrl_policies = <<>>, "No ODRL policies defined")
                    \o ErrorIf(descriptor.handler_function = "", "No handler function specified")
                    \o ErrorIf(descriptor.validation_class = "", "No validation class specified")
            IN [is_valid |-> Len(errors) = 0,
                errors |-> IF errors = <<>> THEN <<>> ELSE <<errors[1]>>]

validate_completeness(acts, action_id) ==
    LET found == get(acts, action_id)
    IN IF found = None
       THEN [is_valid |-> FALSE,
             errors |-> <<"Action '" \o action_id \o "' not found in registry">>]
       ELSE LET descriptor == found[1]
                errors ==
                    ErrorIf(descriptor.ui_fields = <<>>, "No UI fields defined")
                    \o ErrorIf(descriptor.graph_nodes = <<>>, "No graph nodes defined")
                    \o ErrorIf(descriptor.audit_descriptor.summary_template = "",
                               "No audit summary template defined")
                    \o ErrorIf(descriptor.shacl_constraints = <<>>, "No SHACL constraints defined")
                    \o ErrorIf(descriptor.odrl_policies = <<>>, "No ODRL policies defined")
                    \o ErrorIf(descriptor.handler_function = "", "No handler function specified")
                    \o ErrorIf(descriptor.validation_class = "", "No validation class specified")
            IN [is_valid |-> Len(errors) = 0, errors |-> errors]

(***************************************************************************)
(* Calls on the global registry.                                           *)
(***************************************************************************)
Register ==
    \E descriptor \in RegisterChoices :
        /\ _actions' = register(_actions, descriptor)
        /\ call' = [op |-> "register", arg |-> descriptor, ret |-> None]
        /\ UNCHANGED <<imported, requestVars, validatorVars, managerVars, serviceVars, now>>

Get ==
    \E action_id \in LookupIds :
        /\ call' = [op |-> "get", arg |-> action_id, ret |-> get(_actions, action_id)]
        /\ UNCHANGED <<_actions, imported, requestVars, validatorVars, managerVars, serviceVars, now>>

ListAll ==
    /\ call' = [op |-> "list_all", arg |-> <<>>, ret |-> list_all(_actions)]
    /\ UNCHANGED <<_actions, imported, requestVars, validatorVars, managerVars, serviceVars, now>>

ValidateCompleteness ==
    \E action_id \in LookupIds :
        /\ call' = [op |-> "validate_completeness", arg |-> action_id,
                    ret |-> validate_completeness(_actions, action_id)]
        /\ UNCHANGED <<_actions, imported, requestVars, validatorVars, managerVars, serviceVars, now>>

\* a defect: the package leaves out the load-shed module
ImportDescriptors_WithoutLoadShed ==
    /\ ~imported
    /\ imported' = TRUE
    /\ _actions' = register(register(_actions, adjust_setpoint_descriptor),
                            pre_cooling_descriptor)
    /\ call' = [op |-> "import", arg |-> <<>>, ret |-> None]
    /\ UNCHANGED <<requestVars, validatorVars, managerVars, serviceVars, now>>

\* The first import of the package src.models.descriptors runs the three
\* descriptor modules in the order of its __init__.py; each builds its
\* descriptor and registers it.  A module is executed once.
ImportDescriptors ==
    /\ ~imported
    /\ imported' = TRUE
    /\ _actions' = register(register(register(_actions, adjust_setpoint_descriptor),
                                     load_shed_descriptor),
                            pre_cooling_descriptor)
    /\ call' = [op |-> "import", arg |-> <<>>, ret |-> None]
    /\ UNCHANGED <<requestVars, validatorVars, managerVars, serviceVars, now>>

NextRegistry ==
    \/ Register
    \/ Get
    \/ ListAll
    \/ ValidateCompleteness
    \/ ImportDescriptors

SpecRegistry == Init /\ [][NextRegistry]_vars

(***************************************************************************)
(* Properties of the registry.                                             *)
(***************************************************************************)
ActionIds(acts) == {acts[i].action_id : i \in DOMAIN acts}

\* C12: register always succeeds, checks nothing and overwrites by
\* action_id.  Every register call leaves get(id) returning the descriptor
\* just registered and every other id as it was, keeps one entry per
\* distinct action_id, and changes the length of list_all() only when the
\* id was absent (by one); get returns nothing for an id never registered;
\* list_all returns the registered descriptors; no other call changes the
\* registry.
C12_RegisterOverwritesById ==
    [][/\ call'.op = "register" =>
            LET descriptor == call'.arg
                present == descriptor.action_id \in ActionIds(_actions)
            IN /\ call'.ret = None
               /\ get(_actions', descriptor.action_id) = Some(descriptor)
               /\ \A id \in LookupIds \ {descriptor.action_id} :
                      get(_actions', id) = get(_actions, id)
               /\ ActionIds(_actions') = ActionIds(_actions) \cup {descriptor.action_id}
               /\ Cardinality(ActionIds(_actions')) = Len(list_all(_actions'))
               /\ Len(list_all(_actions')) =
                      IF present THEN Len(list_all(_actions)) ELSE Len(list_all(_actions)) + 1
       /\ call'.op = "get" =>
            /\ call'.arg \notin ActionIds(_actions) => call'.ret = None
            /\ call'.arg \in ActionIds(_actions) =>
                   \E i \in DOMAIN _actions :
                       /\ _actions[i].action_id = call'.arg
                       /\ call'.ret = Some(_actions[i])
       /\ call'.op = "list_all" =>
            /\ Len(call'.ret) = Cardinality(ActionIds(_actions))
            /\ \A id \in ActionIds(_actions) :
                   \E i \in DOMAIN call'.ret : Some(call'.ret[i]) = get(_actions, id)
       /\ call'.op \in {"get", "list_all", "validate_completeness"} => _actions' = _actions
      ]_vars

\* an incomplete descriptor re-registered over an earlier one, after the
\* shipped descriptors were registered behind it
C12_Witness ==
    /\ call.op = "register"
    /\ call.arg = TestDescriptor("test-action", CompletenessParts)
    /\ imported
    /\ Len(list_all(_actions)) = 4
    /\ _actions[1] = call.arg
    /\ get(_actions, "no-such-action") = None

\* the error validate_completeness reports for each attribute found empty
CompletenessMessage(part) ==
    CASE part = "ui_fields" -> "No UI fields defined"
      [] part = "graph_nodes" -> "No graph nodes defined"
      [] part = "summary_template" -> "No audit summary template defined"
      [] part = "shacl_constraints" -> "No SHACL constraints defined"
      [] part = "odrl_policies" -> "No ODRL policies defined"
      [] part = "handler_function" -> "No handler function specified"
      [] part = "validation_class" -> "No validation class specified"

\* C13: validate_completeness(id) returns (False, ["Action '<id>' not found
\* in registry"]) when id is not registered; for a registered descriptor it
\* returns exactly one error per empty attribute among ui_fields,
\* graph_nodes, audit summary_template, shacl_constraints, odrl_policies,
\* handler_function and validation_class, whatever the other attributes
\* are, and the boolean is true exactly when the error list is empty.  The
\* call leaves the registry as it was.
C13_CompletenessErrorsIndependent ==
    [][call'.op = "validate_completeness" =>
          /\ _actions' = _actions
          /\ call'.ret.is_valid <=> call'.ret.errors = <<>>
          /\ call'.arg \notin ActionIds(_actions) =>
                 /\ ~call'.ret.is_valid
                 /\ Len(call'.ret.errors) = 1
                 /\ call'.arg = "no-such-action" =>
                        call'.ret.errors = <<"Action 'no-such-action' not found in registry">>
                 /\ call'.arg = "load-shed" =>
                        call'.ret.errors = <<"Action 'load-shed' not found in registry">>
                 /\ call'.arg = "test-action" =>
                        call'.ret.errors = <<"Action 'test-action' not found in registry">>
          /\ \A empty \in SUBSET CompletenessParts :
                 get(_actions, call'.arg) = Some(TestDescriptor(call'.arg, empty)) =>
                     /\ ToSet(call'.ret.errors) = {CompletenessMessage(part) : part \in empty}
                     /\ Len(call'.ret.errors) = Cardinality(empty)
      ]_vars

\* three attributes empty, three errors
C13_Witness ==
    /\ call.op = "validate_completeness"
    /\ call.arg = "test-action"
    /\ get(_actions, "test-action") =
           Some(TestDescriptor("test-action", {"graph_nodes", "odrl_policies", "validation_class"}))
    /\ call.ret = [is_valid |-> FALSE,
                   errors |-> <<"No graph nodes defined", "No ODRL policies defined",
                                "No validation class specified">>]

ShippedDescriptor(action_id) ==
    CASE action_id = "adjust-setpoint" -> adjust_setpoint_descriptor
      [] action_id = "load-shed" -> load_shed_descriptor
      [] action_id = "pre-cooling" -> pre_cooling_descriptor

\* C14: once the descriptor modules have been imported the registry holds
\* adjust-setpoint, load-shed and pre-cooling, each bound to its shipped
\* descriptor, and validate_completeness returns (True, []) for each of
\* them; before the import none of the three is registered.
C14_ShippedDescriptorsComplete ==
    /\ imported =>
           /\ ShippedIds \subseteq ActionIds(list_all(_actions))
           /\ \A id \in ShippedIds :
                  /\ get(_actions, id) = Some(ShippedDescriptor(id))
                  /\ validate_completeness(_actions, id) = [is_valid |-> TRUE, errors |-> <<>>]
           /\ (call.op = "validate_completeness" /\ call.arg \in ShippedIds) =>
                  call.ret = [is_valid |-> TRUE, errors |-> <<>>]
    /\ ~imported => ShippedIds \cap ActionIds(_actions) = {}

C14_Witness ==
    /\ imported
    /\ call.op = "validate_completeness"
    /\ call.arg = "pre-cooling"
    /\ call.ret = [is_valid |-> TRUE, errors |-> <<>>]
    /\ Len(list_all(_actions)) >= 3

RequiredRoles == {"operator", "facility_manager", "energy_manager", "contractor"}

\* C15: every shipped descriptor held by the registry has an ODRL policy
\* for each of operator, facility_manager, energy_manager and contractor,
\* every policy has a permitted flag, and every policy with permitted =
\* false has a non-empty reason.  (register makes no such check on the
\* descriptors of other callers.)
C15_OdrlPoliciesCoverRoles ==
    \A i \in DOMAIN list_all(_actions) :
        LET action == list_all(_actions)[i]
        IN action.action_id \in ShippedIds =>
               /\ action.odrl_policies # <<>>
               /\ \A role \in RequiredRoles :
                      /\ role \in DOMAIN action.odrl_policies
                      /\ LET policy == action.odrl_policies[role]
                         IN /\ "permitted" \in DOMAIN policy
                            /\ policy.permitted \in BOOLEAN
                            /\ ~policy.permitted =>
                                   ("reason" \in DOMAIN policy /\ policy.reason # "")

\* the registry returns a descriptor that denies a role and says why
C15_Witness ==
    /\ imported
    /\ call.op = "get"
    /\ call.arg = "load-shed"
    /\ call.ret # None
    /\ ~call.ret[1].odrl_policies["contractor"].permitted
    /\ call.ret[1].odrl_policies["contractor"].reason =
           "Load shedding requires operational authority"

(***************************************************************************)
(* The bindings of a descriptor: the input model its validation_class      *)
(* names and the executor handler its handler_function names.              *)
(***************************************************************************)
AdjustSetpointFields ==
    {"zone_id", "new_setpoint", "reason", "priority", "max_change", "current_setpoint"}

LoadShedFields ==
    {"zone_ids", "shed_level", "duration_minutes", "equipment_types", "reason",
     "min_comfort_temp", "max_comfort_temp", "priority_zones", "expected_savings_kw"}

PreCoolingFields ==
    {"zone_ids", "target_temp", "start_time", "occupancy_start", "max_rate_delta",
     "priority", "enable_adaptive", "cost_limit_usd", "reason", "min_outdoor_temp",
     "max_outdoor_temp"}

\* the input models exported by src.models.actions, by class name
InputModels == {"AdjustSetpointInput", "LoadShedInput", "PreCoolingInput"}

ModelFields(validation_class) ==
    CASE validation_class = "AdjustSetpointInput" -> AdjustSetpointFields
      [] validation_class = "LoadShedInput" -> LoadShedFields
      [] validation_class = "PreCoolingInput" -> PreCoolingFields
      [] OTHER -> {}

\* ActionInput.Config.extra = "forbid": the keys of a payload that the
\* model refuses with an extra_forbidden error
ForbiddenKeys(validation_class, keys) == keys \ ModelFields(validation_class)

FieldNames(descriptor) ==
    [i \in DOMAIN descriptor.ui_fields |-> descriptor.ui_fields[i].field_name]

UniqueFieldNames(descriptor) ==
    \A i, j \in DOMAIN descriptor.ui_fields :
        i # j => FieldNames(descriptor)[i] # FieldNames(descriptor)[j]

\* C16 as stated: in every shipped descriptor held by the registry the
\* field names of ui_fields are pairwise distinct and each is a field of
\* the input model named by validation_class, so that a payload keyed by
\* them has no key the model forbids.
C16_FieldNamesAreModelFields ==
    \A i \in DOMAIN list_all(_actions) :
        LET action == list_all(_actions)[i]
        IN action.action_id \in ShippedIds =>
               /\ UniqueFieldNames(action)
               /\ action.validation_class \in InputModels
               /\ ForbiddenKeys(action.validation_class, ToSet(FieldNames(action))) = {}

\* what holds of the shipped descriptors: the field names are pairwise
\* distinct, and the keys the input model forbids are user_role for
\* adjust-setpoint, user_role and duration for load-shed, user_role and
\* electricity_rate for pre-cooling
ShippedFieldNames ==
    \A i \in DOMAIN list_all(_actions) :
        LET action == list_all(_actions)[i]
            forbidden == ForbiddenKeys(action.validation_class, ToSet(FieldNames(action)))
        IN action.action_id \in ShippedIds =>
               /\ UniqueFieldNames(action)
               /\ action.action_id = "adjust-setpoint" => forbidden = {"user_role"}
               /\ action.action_id = "load-shed" => forbidden = {"user_role", "duration"}
               /\ action.action_id = "pre-cooling" => forbidden = {"user_role", "electricity_rate"}

\* action_handlers of ActionExecutor._execute_action_logic: the handler
\* method bound to each action type the executor dispatches
action_handlers ==
    [setTemperature |-> "_handle_set_temperature",
     setOccupancyMode |-> "_handle_set_occupancy_mode",
     adjustVentilation |-> "_handle_adjust_ventilation",
     enableEconomizer |-> "_handle_enable_economizer",
     setLightingLevel |-> "_handle_set_lighting_level"]

\* handler = action_handlers.get(request.action_type)
Handler(action_type) ==
    IF action_type \in DOMAIN action_handlers THEN Some(action_handlers[action_type]) ELSE None

DispatchedHandlers == {action_handlers[t] : t \in DOMAIN action_handlers}

\* C17 as stated: for every shipped descriptor held by the registry,
\* handler_function is a handler ActionExecutor dispatches to and
\* validation_class is the name of an existing input model.
C17_HandlersAreDispatched ==
    \A i \in DOMAIN list_all(_actions) :
        LET action == list_all(_actions)[i]
        IN action.action_id \in ShippedIds =>
               /\ action.handler_function \in DispatchedHandlers
               /\ action.validation_class \in InputModels

\* what holds of the shipped descriptors: every validation_class is an
\* input model; only adjust-setpoint names a handler of the executor, and
\* the executor finds no handler under the action_id or the action_type of
\* any of the three
ShippedBindings ==
    \A i \in DOMAIN list_all(_actions) :
        LET action == list_all(_actions)[i]
        IN action.action_id \in ShippedIds =>
               /\ action.validation_class \in InputModels
               /\ action.handler_function \in DispatchedHandlers
                      <=> action.action_id = "adjust-setpoint"
               /\ Handler(action.action_id) = None
               /\ Handler(action.action_type) = None

(***************************************************************************)
(* The exported JSON Schemas (get_input_schema of the three action         *)
(* classes).  A schema property is the record of its keywords; the         *)
(* descriptions are left out.                                              *)
(***************************************************************************)
TimePattern == "^([01]\\d|2[0-3]):([0-5]\\d)$"

AS_get_input_schema ==
    [type |-> "object",
     properties |->
         [zone_id |-> [type |-> "string", minLength |-> 1],
          new_setpoint |-> [type |-> "number", minimum |-> 50, maximum |-> 90],
          reason |-> [type |-> "string", minLength |-> 1],
          priority |-> [type |-> "string", enum |-> <<"low", "medium", "high", "emergency">>,
                        default |-> "medium"],
          max_change |-> [type |-> "number", minimum |-> 0, maximum |-> 15, default |-> 5],
          current_setpoint |-> [type |-> "number", minimum |-> 50, maximum |-> 90]],
     required |-> <<"zone_id", "new_setpoint", "reason">>,
     additionalProperties |-> FALSE]

LS_get_input_schema ==
    [type |-> "object",
     properties |->
         [zone_ids |-> [type |-> "array", items |-> [type |-> "string"], minItems |-> 1],
          shed_level |-> [type |-> "integer", enum |-> <<1, 2, 3, 4, 5>>],
          duration_minutes |-> [type |-> "integer", minimum |-> 1, maximum |-> 240],
          equipment_types |->
              [type |-> "array",
               items |-> [type |-> "string",
                          enum |-> <<"hvac", "lighting", "fan", "pump", "chiller", "boiler">>]],
          reason |-> [type |-> "string", minLength |-> 1],
          min_comfort_temp |-> [type |-> "number", minimum |-> 60, maximum |-> 75, default |-> 68],
          max_comfort_temp |-> [type |-> "number", minimum |-> 70, maximum |-> 85, default |-> 78],
          priority_zones |-> [type |-> "array", items |-> [type |-> "string"]],
          expected_savings_kw |-> [type |-> "number", minimum |-> 0]],
     required |-> <<"zone_ids", "shed_level", "duration_minutes", "reason">>,
     additionalProperties |-> FALSE]

PC_get_input_schema ==
    [type |-> "object",
     properties |->
         [zone_ids |-> [type |-> "array", items |-> [type |-> "string"], minItems |-> 1],
          target_temp |-> [type |-> "number", minimum |-> 60, maximum |-> 75],
          start_time |-> [type |-> "string", pattern |-> TimePattern],
          occupancy_start |-> [type |-> "string", pattern |-> TimePattern],
          max_rate_delta |-> [type |-> "number", minimum |-> 1, maximum |-> 10, default |-> 5],
          priority |-> [type |-> "string", enum |-> <<"low", "medium", "high">>,
                        default |-> "medium"],
          enable_adaptive |-> [type |-> "boolean", default |-> TRUE],
          cost_limit_usd |-> [type |-> "number", minimum |-> 0],
          reason |-> [type |-> "string", minLength |-> 1],
          min_outdoor_temp |-> [type |-> "number", minimum |-> -20, maximum |-> 100],
          max_outdoor_temp |-> [type |-> "number", minimum |-> -20, maximum |-> 120]],
     required |-> <<"zone_ids", "target_temp", "start_time", "occupancy_start", "reason">>,
     additionalProperties |-> FALSE]

get_input_schema(k) ==
    CASE k = "adjust_setpoint" -> AS_get_input_schema
      [] k = "load_shed" -> LS_get_input_schema
      [] k = "pre_cooling" -> PC_get_input_schema

\* JSON Schema validation of a value of the property's type against the
\* keywords of the property: minimum and maximum are inclusive
SchemaAccepts(prop, v) ==
    CASE prop.type \in {"number", "integer"} ->
             /\ "minimum" \in DOMAIN prop => v >= prop.minimum
             /\ "maximum" \in DOMAIN prop => v <= prop.maximum
             /\ "enum" \in DOMAIN prop => v \in ToSet(prop.enum)
      [] prop.type = "string" ->
             /\ "minLength" \in DOMAIN prop => Len(v) >= prop.minLength
             /\ "enum" \in DOMAIN prop => v \in ToSet(prop.enum)
             /\ "pattern" \in DOMAIN prop => MatchesTimePattern(v)
      [] prop.type = "array" ->
             /\ "minItems" \in DOMAIN prop => Len(v) >= prop.minItems
             /\ "enum" \in DOMAIN prop.items =>
                    \A i \in DOMAIN v : v[i] \in ToSet(prop.items.enum)
      [] prop.type = "boolean" -> v \in BOOLEAN


InputModelOf(k) ==
    CASE k = "adjust_setpoint" -> "AdjustSetpointInput"
      [] k = "load_shed" -> "LoadShedInput"
      [] k = "pre_cooling" -> "PreCoolingInput"

\* the schema accepts the value supplied for field f of the request
SchemaAcceptsField(f) == SchemaAccepts(get_input_schema(kind).properties[f], payload[f][1])

\* the input model reported no error on field f of the request
ModelAcceptsField(f) == ErrsAt(f) = <<>>

\* C18 as stated: the exported schema of each action kind has the fields of
\* the input model, and for every supplied field the schema's keywords
\* accept the value exactly when the input model's checks on that field
\* (Field constraints and field validator) accept it.
C18_SchemaMatchesFieldChecks ==
    phase = "done" =>
        /\ DOMAIN get_input_schema(kind).properties = ModelFields(InputModelOf(kind))
        /\ \A f \in DOMAIN payload :
               payload[f] # None => (SchemaAcceptsField(f) <=> ModelAcceptsField(f))

\* what holds: the schema has the fields of the input model and accepts
\* every value the field checks accept; the values it accepts and the model
\* refuses are a new_setpoint outside 60..80, a max_change of 0, a
\* target_temp below 62, a duration above 120 at shed level 4 or 5, and a
\* zone list with a duplicate or a blank id.
SchemaWeakerThanFieldChecks ==
    phase = "done" =>
        /\ DOMAIN get_input_schema(kind).properties = ModelFields(InputModelOf(kind))
        /\ \A f \in DOMAIN payload :
               payload[f] # None =>
                   /\ ModelAcceptsField(f) => SchemaAcceptsField(f)
                   /\ (SchemaAcceptsField(f) /\ ~ModelAcceptsField(f)) =>
                          \/ kind = "adjust_setpoint" /\ f = "new_setpoint"
                               /\ payload[f][1] \notin 60..80
                          \/ kind = "adjust_setpoint" /\ f = "max_change" /\ payload[f][1] = 0
                          \/ kind = "pre_cooling" /\ f = "target_temp" /\ payload[f][1] < 62
                          \/ kind = "load_shed" /\ f = "duration_minutes" /\ LS_CapRuleFails(payload)
                          \/ kind \in {"load_shed", "pre_cooling"} /\ f = "zone_ids"
                               /\ PC_ZoneRuleFails(payload)

(***************************************************************************)
(* The rule-table validator (src/src/services/validator.py).               *)
(*                                                                         *)
(* A parameter value carries its Python type: [type |-> "int", val |-> 7]. *)
(* A float is a whole number here.  The parameters of a request are a      *)
(* dict in insertion order: a sequence of [name, value] entries with       *)
(* distinct names.  An error or warning entry is the record of the kind    *)
(* of its message and of the values the message interpolates; text holds   *)
(* the message where it is made of strings only.                           *)
(***************************************************************************)
PyInt(n) == [type |-> "int", val |-> n]
PyFloat(n) == [type |-> "float", val |-> n]
PyBool(b) == [type |-> "bool", val |-> b]
PyStr(s) == [type |-> "str", val |-> s]
NoneValue == [type |-> "NoneType", val |-> <<>>]
EmptyList == [type |-> "list", val |-> <<>>]
EmptyDict == [type |-> "dict", val |-> <<>>]

\* the classes a value is an instance of: bool is a subclass of int
ClassesOf(value) == IF value.type = "bool" THEN {"bool", "int"} ELSE {value.type}

\* the number a value compares as: True is 1 and False is 0
Num(value) == IF value.type = "bool" THEN (IF value.val THEN 1 ELSE 0) ELSE value.val

\* type_map of _check_type
type_map ==
    [string |-> {"str"}, number |-> {"int", "float"}, boolean |-> {"bool"},
     object |-> {"dict"}, array |-> {"list"}]

\* isinstance(value, expected_python_type); a tag outside type_map is not checked
_check_type(value, expected_type) ==
    IF expected_type \notin DOMAIN type_map THEN TRUE
    ELSE ClassesOf(value) \cap type_map[expected_type] # {}

\* param_value not in validation_rules["enum"]: == on the members, all strings
NotInEnum(param_value, enum) ==
    ~\E i \in DOMAIN enum : param_value.type = "str" /\ param_value.val = enum[i]

_validate_parameter(param_name, param_value, validation_rules) ==
    LET expected_type == IF "type" \in DOMAIN validation_rules
                         THEN validation_rules.type ELSE ""
    IN IF expected_type # "" /\ ~_check_type(param_value, expected_type)
       THEN <<[kind |-> "type", param |-> param_name,
               text |-> "Parameter '" \o param_name \o "' must be of type "
                        \o expected_type \o ", got " \o param_value.type]>>
       ELSE ErrorIf("enum" \in DOMAIN validation_rules
                        /\ NotInEnum(param_value, validation_rules.enum),
                    [kind |-> "enum", param |-> param_name, text |-> ""])
            \o ErrorIf(expected_type = "number" /\ "min" \in DOMAIN validation_rules
                           /\ Num(param_value) < validation_rules.min,
                       [kind |-> "min", param |-> param_name, text |-> ""])
            \o ErrorIf(expected_type = "number" /\ "max" \in DOMAIN validation_rules
                           /\ Num(param_value) > validation_rules.max,
                       [kind |-> "max", param |-> param_name, text |-> ""])

RECURSIVE Join(_, _)
\* sep.join(names)
Join(names, sep) ==
    IF names = <<>> THEN ""
    ELSE IF Len(names) = 1 THEN names[1]
    ELSE names[1] \o sep \o Join(Tail(names), sep)

ParamNames(parameters) == {parameters[i].name : i \in DOMAIN parameters}

RECURSIVE ParameterErrors(_, _)
\* the errors of the loop over parameters.items(), in the order of the dict
ParameterErrors(parameters, rules) ==
    IF parameters = <<>> THEN <<>>
    ELSE LET param_name == Head(parameters).name
             param_value == Head(parameters).value
         IN (IF param_name \in DOMAIN rules.validations
             THEN _validate_parameter(param_name, param_value, rules.validations[param_name])
             ELSE <<>>)
            \o ParameterErrors(Tail(parameters), rules)

RECURSIVE ParameterWarnings(_, _)
\* the warnings of the loop over parameters.items()
ParameterWarnings(parameters, rules) ==
    IF parameters = <<>> THEN <<>>
    ELSE LET param_name == Head(parameters).name
         IN (IF param_name \notin DOMAIN rules.validations
                 /\ param_name \notin ToSet(rules.optional_params)
             THEN <<[kind |-> "unknown", param |-> param_name,
                     text |-> "Unknown parameter: " \o param_name]>>
             ELSE <<>>)
            \o ParameterWarnings(Tail(parameters), rules)

\* placeholders: no warning
_validate_zone_capabilities(zone_id, action_type) == <<>>
_validate_temporal_constraints(action_type, parameters) == <<>>

\* ValidationResponse(is_valid, errors if errors else None, warnings if warnings else None)
ValidationResponse(is_valid, errors, warnings) ==
    [is_valid |-> is_valid,
     errors |-> IF errors # <<>> THEN Some(errors) ELSE None,
     warnings |-> IF warnings # <<>> THEN Some(warnings) ELSE None]

\* validate_action returning as soon as a required parameter is missing
validate_action_FailFast(rule_table, action_type, parameters, target_zone) ==
    IF action_type \notin DOMAIN rule_table
    THEN [is_valid |-> FALSE,
          errors |-> Some(<<[kind |-> "unsupported", param |-> "",
                             text |-> "Unsupported action type: " \o action_type]>>),
          warnings |-> None]
    ELSE LET rules == rule_table[action_type]
             missing_params == SelectSeq(rules.required_params,
                                         LAMBDA param : param \notin ParamNames(parameters))
             errors ==
                 IF missing_params # <<>>
                 THEN <<[kind |-> "missing", params |-> missing_params,
                         text |-> "Missing required parameters: "
                                  \o Join(missing_params, ", ")]>>
                 ELSE ParameterErrors(parameters, rules)
             warnings ==
                 ParameterWarnings(parameters, rules)
                 \o _validate_zone_capabilities(target_zone, action_type)
                 \o _validate_temporal_constraints(action_type, parameters)
         IN ValidationResponse(Len(errors) = 0, errors, warnings)

\* validate_action counting a warning as a failure
validate_action_WarningsFail(rule_table, action_type, parameters, target_zone) ==
    IF action_type \notin DOMAIN rule_table
    THEN [is_valid |-> FALSE,
          errors |-> Some(<<[kind |-> "unsupported", param |-> "",
                             text |-> "Unsupported action type: " \o action_type]>>),
          warnings |-> None]
    ELSE LET rules == rule_table[action_type]
             missing_params == SelectSeq(rules.required_params,
                                         LAMBDA param : param \notin ParamNames(parameters))
             errors ==
                 ErrorIf(missing_params # <<>>,
                         [kind |-> "missing", params |-> missing_params,
                          text |-> "Missing required parameters: "
                                   \o Join(missing_params, ", ")])
                 \o ParameterErrors(parameters, rules)
             warnings ==
                 ParameterWarnings(parameters, rules)
                 \o _validate_zone_capabilities(target_zone, action_type)
                 \o _validate_temporal_constraints(action_type, parameters)
         IN ValidationResponse(Len(errors) = 0 /\ Len(warnings) = 0, errors, warnings)

validate_action(rule_table, action_type, parameters, target_zone) ==
    IF action_type \notin DOMAIN rule_table
    THEN [is_valid |-> FALSE,
          errors |-> Some(<<[kind |-> "unsupported", param |-> "",
                             text |-> "Unsupported action type: " \o action_type]>>),
          warnings |-> None]
    ELSE LET rules == rule_table[action_type]
             missing_params == SelectSeq(rules.required_params,
                                         LAMBDA param : param \notin ParamNames(parameters))
             errors ==
                 ErrorIf(missing_params # <<>>,
                         [kind |-> "missing", params |-> missing_params,
                          text |-> "Missing required parameters: "
                                   \o Join(missing_params, ", ")])
                 \o ParameterErrors(parameters, rules)
             warnings ==
                 ParameterWarnings(parameters, rules)
                 \o _validate_zone_capabilities(target_zone, action_type)
                 \o _validate_temporal_constraints(action_type, parameters)
         IN ValidationResponse(Len(errors) = 0, errors, warnings)

\* validate_request(request)
validate_request(rule_table, request) ==
    validate_action(rule_table, request.action_type, request.parameters, request.target_zone)

\* The rule table is whatever _load_validation_rules returns ("in production,
\* this would load from RDF/SHACL shapes"), and every action type of the
\* shipped table has a single required parameter.  A second table, of the
\* same shape, has an action type with two required parameters, one of them
\* under a type tag type_map does not have, and an optional one with a rule.
TwoRequiredRules ==
    [scheduleSetback |->
         [required_params |-> <<"start_hour", "setpoint">>,
          optional_params |-> <<"mode">>,
          validations |->
              [start_hour |-> [type |-> "integer", min |-> 0, max |-> 23],
               setpoint |-> [type |-> "number", min |-> 55, max |-> 85],
               mode |-> [type |-> "string", enum |-> <<"night", "weekend">>]]]]

RuleTables == {_load_validation_rules, TwoRequiredRules}

\* Values supplied for a parameter with the given rule: around the bounds,
\* inside and outside the enum, of the declared type and of other types.
CandidateValues(rule) ==
    IF rule.type \in {"number", "integer"}
    THEN {PyInt(rule.min - 1), PyInt(rule.min), PyFloat(rule.max), PyInt(rule.max + 1),
          PyBool(TRUE), PyStr("auto"), NoneValue}
    ELSE IF rule.type = "string"
    THEN {PyStr(rule.enum[1]), PyStr("bogus"), PyInt(1), PyBool(FALSE)}
    ELSE {PyBool(TRUE), PyBool(FALSE), PyInt(1), PyStr("true")}

\* values supplied for a parameter without a rule
FreeValues == {PyStr("x"), PyInt(1), EmptyList, EmptyDict}

NamesOf(rules) ==
    DOMAIN rules.validations \cup ToSet(rules.required_params)
        \cup ToSet(rules.optional_params) \cup {"unknown_param"}

Entries(rules, name) ==
    {[name |-> name, value |-> v] :
        v \in IF name \in DOMAIN rules.validations
              THEN CandidateValues(rules.validations[name]) ELSE FreeValues}

AllEntries(rules) == UNION {Entries(rules, n) : n \in NamesOf(rules)}

\* the dicts of at most two parameters
ParameterBundles(rules) ==
    {<<>>}
    \cup UNION {{<<e>> : e \in Entries(rules, n)} : n \in NamesOf(rules)}
    \cup {pair \in AllEntries(rules) \X AllEntries(rules) : pair[1].name # pair[2].name}

EntryPoints == {"validate_action", "validate_request"}

ValidationRequests(rule_table) ==
    UNION {{[action_type |-> t, parameters |-> ps, target_zone |-> "zone-1", via |-> via] :
                ps \in ParameterBundles(rule_table[t]), via \in EntryPoints} :
           t \in DOMAIN rule_table}
    \cup {[action_type |-> "dimLights", parameters |-> ps, target_zone |-> "zone-1", via |-> via] :
              ps \in {<<>>, <<[name |-> "level", value |-> PyInt(1)]>>}, via \in EntryPoints}


(***************************************************************************)
(* Validation requests on an ActionValidator.                              *)
(***************************************************************************)
InitAnyRules ==
    /\ phase = "idle"
    /\ kind = "none"
    /\ payload = <<>>
    /\ result = NoResult
    /\ _actions = <<>>
    /\ imported = FALSE
    /\ call = NoCall
    /\ _validation_rules \in RuleTables
    /\ vstage = "idle"
    /\ vrequest = NoRequest
    /\ vresponse = NoResponse
    /\ now = 0
    /\ sm = NewStateManager
    /\ smcall = NoCall
    /\ started = FALSE
    /\ _state_manager = NoStateManagers
    /\ _executor = None
    /\ tasks = <<>>
    /\ served = NoCall

\* a caller prepares the arguments of a validation
ReceiveValidation ==
    /\ vstage = "idle"
    /\ \E request \in ValidationRequests(_validation_rules) : vrequest' = request
    /\ vstage' = "received"
    /\ UNCHANGED <<vresponse, _validation_rules, requestVars, registryVars, managerVars, serviceVars, now>>

ValidateAction ==
    /\ vstage = "received"
    /\ vrequest.via = "validate_action"
    /\ vresponse' = validate_action(_validation_rules, vrequest.action_type,
                                    vrequest.parameters, vrequest.target_zone)
    /\ vstage' = "answered"
    /\ UNCHANGED <<vrequest, _validation_rules, requestVars, registryVars, managerVars, serviceVars, now>>

ValidateRequest ==
    /\ vstage = "received"
    /\ vrequest.via = "validate_request"
    /\ vresponse' = validate_request(_validation_rules, vrequest)
    /\ vstage' = "answered"
    /\ UNCHANGED <<vrequest, _validation_rules, requestVars, registryVars, managerVars, serviceVars, now>>

\* the caller has read the response
ReturnValidation ==
    /\ vstage = "answered"
    /\ vstage' = "idle"
    /\ vrequest' = NoRequest
    /\ vresponse' = NoResponse
    /\ UNCHANGED <<_validation_rules, requestVars, registryVars, managerVars, serviceVars, now>>

NextValidator ==
    \/ ReceiveValidation
    \/ ValidateAction
    \/ ValidateRequest
    \/ ReturnValidation

\* the validator as constructed: the shipped rule table
SpecValidator == Init /\ [][NextValidator]_vars

\* the validator over either rule table
SpecAnyRules == InitAnyRules /\ [][NextValidator]_vars

(***************************************************************************)
(* Properties of the rule-table validator.                                 *)
(***************************************************************************)
\* the error entries of the response: errors is None when there is none
ResponseErrors == IF vresponse.errors = None THEN <<>> ELSE vresponse.errors[1]

\* the rules of the action type of the request
RequestRules == _validation_rules[vrequest.action_type]

\* the required parameters the request does not supply
AbsentParams ==
    {param \in ToSet(RequestRules.required_params) :
         param \notin ParamNames(vrequest.parameters)}

\* the error entries about one supplied parameter, in the order reported
ErrorsAbout(param_name) ==
    SelectSeq(ResponseErrors,
              LAMBDA e : e.kind \in {"type", "enum", "min", "max"} /\ e.param = param_name)

\* C19: for a known action type the response has one "missing" error entry
\* exactly when some required parameter is absent, that entry names every
\* absent required parameter and no other, in its list and in its text, and
\* every supplied parameter with a rule has the errors of its own check
\* whether or not a required parameter is missing.
C19_MissingReportedTogether ==
    (vstage = "answered" /\ vrequest.action_type \in DOMAIN _validation_rules) =>
        LET missing_entries == {i \in DOMAIN ResponseErrors :
                                   ResponseErrors[i].kind = "missing"}
        IN /\ Cardinality(missing_entries) = IF AbsentParams = {} THEN 0 ELSE 1
           /\ \A i \in missing_entries :
                  /\ ToSet(ResponseErrors[i].params) = AbsentParams
                  /\ Len(ResponseErrors[i].params) = Cardinality(AbsentParams)
                  /\ ResponseErrors[i].text =
                         "Missing required parameters: "
                         \o Join(SelectSeq(RequestRules.required_params,
                                           LAMBDA param : param \in AbsentParams), ", ")
           /\ \A i \in DOMAIN vrequest.parameters :
                  LET entry == vrequest.parameters[i]
                  IN entry.name \in DOMAIN RequestRules.validations =>
                         ErrorsAbout(entry.name) =
                             _validate_parameter(entry.name, entry.value,
                                                 RequestRules.validations[entry.name])
           /\ vresponse.is_valid = (ResponseErrors = <<>>)

\* two required parameters are missing and the one supplied parameter is
\* outside its enum: one entry names both, and the enum error follows it
C19_Witness ==
    /\ vstage = "answered"
    /\ vrequest.action_type = "scheduleSetback"
    /\ vrequest.parameters = <<[name |-> "mode", value |-> PyStr("bogus")]>>
    /\ vresponse.errors =
           Some(<<[kind |-> "missing", params |-> <<"start_hour", "setpoint">>,
                   text |-> "Missing required parameters: start_hour, setpoint"],
                  [kind |-> "enum", param |-> "mode", text |-> ""]>>)


\* the type of a value as the type tags name it
TagOf(value) ==
    CASE value.type = "str" -> "string"
      [] value.type \in {"int", "float"} -> "number"
      [] value.type = "bool" -> "boolean"
      [] value.type = "dict" -> "object"
      [] value.type = "list" -> "array"
      [] OTHER -> "null"

\* the supplied parameters of the request that have a rule with a type tag
RuledEntries ==
    {i \in DOMAIN vrequest.parameters :
         /\ vrequest.parameters[i].name \in DOMAIN RequestRules.validations
         /\ "type" \in DOMAIN RequestRules.validations[vrequest.parameters[i].name]}

\* C20 as stated: a supplied parameter whose value is not of the type its
\* tag names (a boolean is not a number) has exactly one error, a type error,
\* and a min or max error is reported only under the tag number.
C20_TypeCheckedFirst ==
    (vstage = "answered" /\ vrequest.action_type \in DOMAIN _validation_rules) =>
        \A i \in RuledEntries :
            LET entry == vrequest.parameters[i]
                rule == RequestRules.validations[entry.name]
                about == ErrorsAbout(entry.name)
            IN /\ (rule.type \in DOMAIN type_map /\ TagOf(entry.value) # rule.type) =>
                      (Len(about) = 1 /\ about[1].kind = "type")
               /\ \A j \in DOMAIN about :
                      about[j].kind \in {"min", "max"} => rule.type = "number"

\* What the code does: the one type error is reported when isinstance fails,
\* and a bool passes isinstance under the tag number.
TypeErrorWhenNotInstance ==
    (vstage = "answered" /\ vrequest.action_type \in DOMAIN _validation_rules) =>
        \A i \in RuledEntries :
            LET entry == vrequest.parameters[i]
                rule == RequestRules.validations[entry.name]
                about == ErrorsAbout(entry.name)
            IN /\ ~_check_type(entry.value, rule.type) =>
                      (Len(about) = 1 /\ about[1].kind = "type")
               /\ (rule.type = "number" /\ entry.value.type = "bool") =>
                      \A j \in DOMAIN about : about[j].kind \in {"min", "max"}
               /\ \A j \in DOMAIN about :
                      about[j].kind \in {"min", "max"} => rule.type = "number"

\* a boolean supplied as the lighting level is accepted as the number 1
BooleanAcceptedAsNumber ==
    /\ vstage = "answered"
    /\ vrequest.action_type = "setLightingLevel"
    /\ vrequest.parameters = <<[name |-> "level", value |-> PyBool(TRUE)]>>
    /\ vresponse.is_valid

\* the warning entries of the response: warnings is None when there is none
ResponseWarnings == IF vresponse.warnings = None THEN <<>> ELSE vresponse.warnings[1]

\* the supplied parameters, in the order of the dict, that have no rule and
\* are not declared optional
UndeclaredParams ==
    SelectSeq(vrequest.parameters,
              LAMBDA entry : /\ entry.name \notin DOMAIN RequestRules.validations
                             /\ entry.name \notin ToSet(RequestRules.optional_params))

\* C21: an action type outside the rule table is answered is_valid = FALSE
\* with the one error "Unsupported action type: <type>" and no warnings; for a
\* known action type each supplied parameter that has no rule and is not
\* declared optional adds one "Unknown parameter" warning and no error; and
\* is_valid is TRUE exactly when there is no error, whatever the warnings.
C21_UnknownTypeFailsUnknownParamWarns ==
    vstage = "answered" =>
        /\ vrequest.action_type \notin DOMAIN _validation_rules =>
               /\ ~vresponse.is_valid
               /\ Len(ResponseErrors) = 1
               /\ ResponseErrors[1].text =
                      "Unsupported action type: " \o vrequest.action_type
               /\ vresponse.warnings = None
        /\ vrequest.action_type \in DOMAIN _validation_rules =>
               /\ Len(ResponseWarnings) = Len(UndeclaredParams)
               /\ \A i \in DOMAIN ResponseWarnings :
                      ResponseWarnings[i].text =
                          "Unknown parameter: " \o UndeclaredParams[i].name
               /\ \A i \in DOMAIN UndeclaredParams :
                      ErrorsAbout(UndeclaredParams[i].name) = <<>>
        /\ vresponse.is_valid = (ResponseErrors = <<>>)

\* a valid setpoint next to a parameter nobody declared: valid, with a warning
C21_Witness ==
    /\ vstage = "answered"
    /\ vrequest.action_type = "setTemperature"
    /\ vrequest.parameters = <<[name |-> "setpoint", value |-> PyInt(55)],
                               [name |-> "unknown_param", value |-> PyStr("x")]>>
    /\ vresponse.is_valid
    /\ vresponse.errors = None
    /\ Len(ResponseWarnings) = 1


(***************************************************************************)
(* Concurrent callers of the registry.  register, get and list_all are     *)
(* synchronous methods of one dict operation each: a caller is never       *)
(* suspended inside one, so the calls of concurrent callers interleave as  *)
(* whole steps, in any order.                                              *)
(***************************************************************************)
\* the descriptors some register call supplies
SuppliedDescriptors == RegisterChoices \cup {ShippedDescriptor(id) : id \in ShippedIds}

\* a descriptor that some register call supplied for the id
WholeFor(descriptor, action_id) ==
    descriptor \in SuppliedDescriptors /\ descriptor.action_id = action_id

\* C23: whatever the order of the register, get and list_all calls, the
\* registry holds under each id a complete descriptor that a register call
\* supplied for that id; get(id) returns nothing or such a descriptor, and
\* list_all returns only such descriptors, one per id.
C23_LookupsSeeWholeDescriptors ==
    /\ \A i \in DOMAIN _actions : _actions[i] \in SuppliedDescriptors
    /\ \A i, j \in DOMAIN _actions : _actions[i].action_id = _actions[j].action_id => i = j
    /\ call.op = "get" =>
           (call.ret = None \/ WholeFor(call.ret[1], call.arg))
    /\ call.op = "list_all" =>
           /\ \A i \in DOMAIN call.ret : WholeFor(call.ret[i], call.ret[i].action_id)
           /\ \A i, j \in DOMAIN call.ret :
                  call.ret[i].action_id = call.ret[j].action_id => i = j

\* a lookup that returns the second descriptor registered under an id,
\* next to the shipped ones
C23_Witness ==
    /\ call.op = "get"
    /\ call.arg = "test-action"
    /\ call.ret = Some(TestDescriptor("test-action", {"ui_fields", "odrl_policies"}))
    /\ Len(_actions) = 4


(***************************************************************************)
(* The state manager (src/src/services/state_manager.py).                  *)
(*                                                                         *)
(* A dict with string keys is a function on its keys, the empty dict       *)
(* <<>>; the values of a zone state are parameter values (PyInt, PyStr,    *)
(* ...).  A datetime is the number of the clock reading it was taken at.   *)
(* A StateManager is the record of its three attributes; the lock guards   *)
(* bodies that contain no await, and acquiring a free asyncio lock does    *)
(* not suspend the caller, so each method runs as one step.                *)
(***************************************************************************)
\* dict(d); d.update(u)
Updated(d, u) ==
    [k \in DOMAIN d \cup DOMAIN u |-> IF k \in DOMAIN u THEN u[k] ELSE d[k]]

\* parameters.get(name, default)
DictGet(parameters, name, default) ==
    IF name \in ParamNames(parameters)
    THEN parameters[CHOOSE i \in DOMAIN parameters : parameters[i].name = name].value
    ELSE default

\* the entry key: parameters[name], when name is in parameters
WhenSupplied(parameters, name, key) ==
    IF name \in ParamNames(parameters)
    THEN key :> DictGet(parameters, name, NoneValue)
    ELSE <<>>

\* datetime.isoformat()
isoformat(timestamp) == PyStr("T" \o ToString(timestamp))

AuditEntry(action_id, timestamp, action_type, target_zone, user, status, details) ==
    [action_id |-> action_id, timestamp |-> timestamp, action_type |-> action_type,
     target_zone |-> target_zone, user |-> user, status |-> status, details |-> details]

BuildingState(zone_id, state, timestamp) ==
    [zone_id |-> zone_id, timestamp |-> timestamp, state |-> state, metadata |-> None]

_compute_state_updates(action_type, parameters, current_state) ==
    CASE action_type = "setTemperature" ->
             ("temperature_setpoint" :> DictGet(parameters, "setpoint", NoneValue))
             @@ ("hvac_mode" :> DictGet(parameters, "mode", PyStr("auto")))
      [] action_type = "setOccupancyMode" ->
             ("occupancy_mode" :> DictGet(parameters, "mode", NoneValue))
      [] action_type = "adjustVentilation" ->
             ("ventilation_rate" :> DictGet(parameters, "rate", NoneValue))
             @@ WhenSupplied(parameters, "mode", "ventilation_mode")
      [] action_type = "enableEconomizer" ->
             ("economizer_enabled" :> DictGet(parameters, "enabled", PyBool(TRUE)))
             @@ WhenSupplied(parameters, "min_outdoor_temp", "economizer_min_temp")
             @@ WhenSupplied(parameters, "max_outdoor_temp", "economizer_max_temp")
      [] action_type = "setLightingLevel" ->
             ("lighting_level" :> DictGet(parameters, "level", NoneValue))
             @@ WhenSupplied(parameters, "duration", "lighting_duration")
      [] OTHER -> <<>>

\* self._zone_states[zone_id] on the defaultdict(dict): a missing zone reads
\* as the empty dict, which the subscript also stores
CurrentState(manager, zone_id) ==
    IF zone_id \in DOMAIN manager._zone_states THEN manager._zone_states[zone_id] ELSE <<>>

\* a defect: the update is computed on an empty state, not on the current one
update_state_FromEmpty(manager, timestamp, zone_id, action_type, parameters, action_id, user) ==
    LET state_updates == _compute_state_updates(action_type, parameters, <<>>)
        new_state == Updated(state_updates,
                             ("last_updated" :> isoformat(timestamp))
                             @@ ("last_action_id" :> PyStr(action_id)))
    IN [_zone_states |-> Updated(manager._zone_states, zone_id :> new_state),
        _state_history |->
            Append(manager._state_history,
                   [zone_id |-> zone_id, timestamp |-> timestamp, action_id |-> action_id,
                    action_type |-> action_type,
                    previous_state |-> CurrentState(manager, zone_id),
                    new_state |-> new_state, parameters |-> parameters]),
        _audit_trail |->
            Append(manager._audit_trail,
                   AuditEntry(action_id, timestamp, action_type, zone_id, user, "completed",
                              [parameters |-> parameters, state_changes |-> state_updates]))]

\* a defect: the audit entry is written only for a named user
update_state_AuditNamedOnly(manager, timestamp, zone_id, action_type, parameters, action_id, user) ==
    LET current_state == CurrentState(manager, zone_id)
        state_updates == _compute_state_updates(action_type, parameters, current_state)
        new_state == Updated(Updated(current_state, state_updates),
                             ("last_updated" :> isoformat(timestamp))
                             @@ ("last_action_id" :> PyStr(action_id)))
    IN [_zone_states |-> Updated(manager._zone_states, zone_id :> new_state),
        _state_history |->
            Append(manager._state_history,
                   [zone_id |-> zone_id, timestamp |-> timestamp, action_id |-> action_id,
                    action_type |-> action_type, previous_state |-> current_state,
                    new_state |-> new_state, parameters |-> parameters]),
        _audit_trail |->
            IF user = None THEN manager._audit_trail
            ELSE Append(manager._audit_trail,
                        AuditEntry(action_id, timestamp, action_type, zone_id, user,
                                   "completed",
                                   [parameters |-> parameters,
                                    state_changes |-> state_updates]))]

\* update_state, the body under the lock; timestamp is datetime.utcnow()
update_state(manager, timestamp, zone_id, action_type, parameters, action_id, user) ==
    LET current_state == CurrentState(manager, zone_id)
        previous_state == current_state
        state_updates == _compute_state_updates(action_type, parameters, current_state)
        new_state == Updated(Updated(current_state, state_updates),
                             ("last_updated" :> isoformat(timestamp))
                             @@ ("last_action_id" :> PyStr(action_id)))
    IN [_zone_states |-> Updated(manager._zone_states, zone_id :> new_state),
        _state_history |->
            Append(manager._state_history,
                   [zone_id |-> zone_id, timestamp |-> timestamp, action_id |-> action_id,
                    action_type |-> action_type, previous_state |-> previous_state,
                    new_state |-> new_state, parameters |-> parameters]),
        _audit_trail |->
            Append(manager._audit_trail,
                   AuditEntry(action_id, timestamp, action_type, zone_id, user, "completed",
                              [parameters |-> parameters, state_changes |-> state_updates]))]

\* the defaults of initialize_zone
default_state(timestamp) ==
    [temperature_setpoint |-> PyFloat(72), hvac_mode |-> PyStr("auto"),
     occupancy_mode |-> PyStr("unoccupied"), ventilation_rate |-> PyInt(0),
     lighting_level |-> PyInt(0), economizer_enabled |-> PyBool(FALSE),
     last_updated |-> isoformat(timestamp)]

\* a defect: an initialised zone is initialised again
initialize_zone_Again(manager, timestamp, zone_id, initial_state) ==
    [manager EXCEPT !._zone_states =
         Updated(@, zone_id :> (IF initial_state # None /\ initial_state[1] # <<>>
                                THEN Updated(default_state(timestamp), initial_state[1])
                                ELSE default_state(timestamp)))]

\* initialize_zone: initial_state is None or Some(dict); an empty dict is
\* not applied either
initialize_zone(manager, timestamp, zone_id, initial_state) ==
    IF zone_id \in DOMAIN manager._zone_states
    THEN manager
    ELSE [manager EXCEPT !._zone_states =
              Updated(@, zone_id :> (IF initial_state # None /\ initial_state[1] # <<>>
                                     THEN Updated(default_state(timestamp), initial_state[1])
                                     ELSE default_state(timestamp)))]

\* del d[key]
Without(d, key) == [k \in DOMAIN d \ {key} |-> d[k]]

\* clear_state: zone_id is None or Some(id); "if zone_id" is false for None
\* and for the empty string
clear_state(manager, zone_id) ==
    IF zone_id # None /\ zone_id[1] # ""
    THEN [manager EXCEPT !._zone_states = Without(@, zone_id[1])]
    ELSE NewStateManager

get_zone_state(manager, timestamp, zone_id) ==
    IF zone_id \notin DOMAIN manager._zone_states THEN None
    ELSE Some(BuildingState(zone_id, manager._zone_states[zone_id], timestamp))

RECURSIVE Reversed(_)
Reversed(s) == IF s = <<>> THEN <<>> ELSE Append(Reversed(Tail(s)), Head(s))

\* get_state_history(zone_id): filtered, latest first; the timestamps of the
\* records increase, and limit = 100 exceeds the records kept here
get_state_history(manager, zone_id) ==
    Reversed(SelectSeq(manager._state_history,
                       LAMBDA h : zone_id = None \/ zone_id[1] = "" \/ h.zone_id = zone_id[1]))

\* get_audit_trail(zone_id): filtered, latest first
get_audit_trail(manager, zone_id) ==
    Reversed(SelectSeq(manager._audit_trail,
                       LAMBDA e : zone_id = None \/ zone_id[1] = "" \/ e.target_zone = zone_id[1]))

get_statistics(manager) ==
    [total_zones |-> Cardinality(DOMAIN manager._zone_states),
     total_state_changes |-> Len(manager._state_history),
     total_audit_entries |-> Len(manager._audit_trail),
     zones |-> DOMAIN manager._zone_states]

(***************************************************************************)
(* Calls on a StateManager.                                                *)
(***************************************************************************)
ZoneIds == {"Z001", "Z9"}

Users == {None, Some("alice")}

\* the update_state calls made: (zone_id, action_type, parameters, action_id, user)
UpdateChoices ==
    {[zone_id |-> "Z001", action_type |-> "setTemperature",
      parameters |-> <<[name |-> "setpoint", value |-> PyInt(70)]>>,
      action_id |-> "a1", user |-> None],
     [zone_id |-> "Z001", action_type |-> "setLightingLevel",
      parameters |-> <<[name |-> "level", value |-> PyInt(50)],
                       [name |-> "duration", value |-> PyInt(60)]>>,
      action_id |-> "a2", user |-> Some("alice")],
     [zone_id |-> "Z9", action_type |-> "setTemperature",
      parameters |-> <<[name |-> "setpoint", value |-> PyInt(68)],
                       [name |-> "mode", value |-> PyStr("cool")]>>,
      action_id |-> "a2", user |-> Some("alice")],
     [zone_id |-> "Z9", action_type |-> "dimLights",
      parameters |-> <<>>, action_id |-> "a3", user |-> None]}

\* the initial_state arguments of initialize_zone
InitialStates ==
    {None, Some([temperature_setpoint |-> PyFloat(68), occupancy_mode |-> PyStr("occupied")])}

UpdateState ==
    \E c \in UpdateChoices :
        /\ now < MaxClock
        /\ sm' = update_state(sm, now, c.zone_id, c.action_type, c.parameters,
                              c.action_id, c.user)
        /\ now' = now + 1
        /\ smcall' = [op |-> "update_state", arg |-> c, ret |-> None]
        /\ UNCHANGED <<requestVars, registryVars, validatorVars, serviceVars>>

InitializeZone ==
    \E zone_id \in ZoneIds, initial_state \in InitialStates :
        /\ now < MaxClock
        /\ sm' = initialize_zone(sm, now, zone_id, initial_state)
        /\ now' = IF zone_id \in DOMAIN sm._zone_states THEN now ELSE now + 1
        /\ smcall' = [op |-> "initialize_zone",
                      arg |-> [zone_id |-> zone_id, initial_state |-> initial_state],
                      ret |-> None]
        /\ UNCHANGED <<requestVars, registryVars, validatorVars, serviceVars>>

ClearState ==
    \E zone_id \in Opt(ZoneIds) :
        /\ sm' = clear_state(sm, zone_id)
        /\ smcall' = [op |-> "clear_state", arg |-> zone_id, ret |-> None]
        /\ UNCHANGED <<now, requestVars, registryVars, validatorVars, serviceVars>>

GetZoneState ==
    \E zone_id \in ZoneIds :
        /\ smcall' = [op |-> "get_zone_state", arg |-> zone_id,
                      ret |-> get_zone_state(sm, now, zone_id)]
        /\ UNCHANGED <<sm, now, requestVars, registryVars, validatorVars, serviceVars>>

GetStateHistory ==
    \E zone_id \in {None, Some("Z001")} :
        /\ smcall' = [op |-> "get_state_history", arg |-> zone_id,
                      ret |-> get_state_history(sm, zone_id)]
        /\ UNCHANGED <<sm, now, requestVars, registryVars, validatorVars, serviceVars>>

GetAuditTrail ==
    \E zone_id \in {None, Some("Z001")} :
        /\ smcall' = [op |-> "get_audit_trail", arg |-> zone_id,
                      ret |-> get_audit_trail(sm, zone_id)]
        /\ UNCHANGED <<sm, now, requestVars, registryVars, validatorVars, serviceVars>>

GetStatistics ==
    /\ smcall' = [op |-> "get_statistics", arg |-> <<>>, ret |-> get_statistics(sm)]
    /\ UNCHANGED <<sm, now, requestVars, registryVars, validatorVars, serviceVars>>

NextStateManager ==
    \/ UpdateState
    \/ InitializeZone
    \/ ClearState
    \/ GetZoneState
    \/ GetStateHistory
    \/ GetAuditTrail
    \/ GetStatistics

SpecStateManager == Init /\ [][NextStateManager]_vars


(***************************************************************************)
(* Properties of the state manager.                                        *)
(***************************************************************************)
\* the step is an update_state call (each one takes a clock reading)
IsUpdateStep == smcall'.op = "update_state" /\ now' # now

\* the record the step appended to the state history
AppendedRecord == sm'._state_history[Len(sm'._state_history)]

StampKeys == {"last_updated", "last_action_id"}

\* the state a record's update leads to, key by key
ExpectedNewState(record) ==
    LET updates == _compute_state_updates(record.action_type, record.parameters,
                                          record.previous_state)
    IN [key \in DOMAIN record.previous_state \cup DOMAIN updates \cup StampKeys |->
            IF key = "last_updated" THEN isoformat(record.timestamp)
            ELSE IF key = "last_action_id" THEN PyStr(record.action_id)
            ELSE IF key \in DOMAIN updates THEN updates[key]
            ELSE record.previous_state[key]]

\* the records of a zone, oldest first
RecordsOf(manager, zone_id) ==
    SelectSeq(manager._state_history, LAMBDA h : h.zone_id = zone_id)

\* a zone whose state carries the stamp of an update is in the new_state of
\* the latest record of that zone
LatestRecordIsState(manager) ==
    \A zone_id \in DOMAIN manager._zone_states :
        "last_action_id" \in DOMAIN manager._zone_states[zone_id] =>
            LET records == RecordsOf(manager, zone_id)
            IN /\ records # <<>>
               /\ records[Len(records)].new_state = manager._zone_states[zone_id]

\* C28: the update_state calls take effect one after the other, whatever
\* their order.  The record an update appends has as previous_state the
\* state of the zone immediately before the call (empty for a zone not in
\* the map) and as new_state that state overridden by the computed updates,
\* last_updated and last_action_id; the zone is left in new_state and no
\* other zone changes; and between updates a zone stays in the new_state of
\* its latest record unless clear_state or initialize_zone replaced it.
C28_UpdatesAreSerialised ==
    [][/\ IsUpdateStep =>
            LET c == smcall'.arg
            IN /\ Len(sm'._state_history) = Len(sm._state_history) + 1
               /\ AppendedRecord.zone_id = c.zone_id
               /\ AppendedRecord.action_id = c.action_id
               /\ AppendedRecord.previous_state = CurrentState(sm, c.zone_id)
               /\ AppendedRecord.new_state = ExpectedNewState(AppendedRecord)
               /\ sm'._zone_states[c.zone_id] = AppendedRecord.new_state
               /\ \A zone_id \in DOMAIN sm._zone_states \ {c.zone_id} :
                      /\ zone_id \in DOMAIN sm'._zone_states
                      /\ sm'._zone_states[zone_id] = sm._zone_states[zone_id]
       /\ LatestRecordIsState(sm')
       /\ smcall'.op \notin {"update_state", "clear_state", "initialize_zone"} =>
              sm'._zone_states = sm._zone_states
      ]_vars

\* two updates of Z001 in a row: the second starts from the state the first
\* left, and the zone holds the setpoint of one and the level of the other
C28_Witness ==
    /\ smcall.op = "update_state"
    /\ Len(sm._state_history) = 2
    /\ sm._state_history[1].zone_id = "Z001"
    /\ sm._state_history[2].zone_id = "Z001"
    /\ sm._state_history[2].previous_state = sm._state_history[1].new_state
    /\ sm._state_history[1].new_state # <<>>
    /\ "Z001" \in DOMAIN sm._zone_states
    /\ {"temperature_setpoint", "lighting_level"} \subseteq DOMAIN sm._zone_states["Z001"]
    /\ sm._zone_states["Z001"].temperature_setpoint = PyInt(70)
    /\ sm._zone_states["Z001"].lighting_level = PyInt(50)

\* the i-th history record and the i-th audit entry are of the same action
\* and zone
Aligned(manager) ==
    /\ Len(manager._state_history) = Len(manager._audit_trail)
    /\ \A i \in DOMAIN manager._state_history :
           /\ manager._state_history[i].action_id = manager._audit_trail[i].action_id
           /\ manager._state_history[i].zone_id = manager._audit_trail[i].target_zone

\* C29: the state history and the audit trail always have the same length
\* and their i-th entries carry the same action_id and zone.  update_state
\* appends exactly one entry to each; clear_state without a zone empties
\* both; clear_state(zone), initialize_zone and the read operations leave
\* both as they were.
C29_HistoryAndAuditAligned ==
    [][/\ Aligned(sm) /\ Aligned(sm')
       /\ IsUpdateStep =>
              /\ Len(sm'._state_history) = Len(sm._state_history) + 1
              /\ SubSeq(sm'._state_history, 1, Len(sm._state_history)) = sm._state_history
              /\ Len(sm'._audit_trail) = Len(sm._audit_trail) + 1
              /\ SubSeq(sm'._audit_trail, 1, Len(sm._audit_trail)) = sm._audit_trail
       /\ (smcall'.op = "clear_state" /\ smcall'.arg = None) =>
              (sm'._state_history = <<>> /\ sm'._audit_trail = <<>>)
       /\ (smcall'.op = "clear_state" /\ smcall'.arg # None) =>
              /\ sm'._state_history = sm._state_history
              /\ sm'._audit_trail = sm._audit_trail
       /\ smcall'.op \in {"initialize_zone", "get_zone_state", "get_state_history",
                          "get_audit_trail", "get_statistics"} =>
              /\ sm'._state_history = sm._state_history
              /\ sm'._audit_trail = sm._audit_trail
      ]_vars

\* two updates of different zones, then the clearing of one zone: both
\* lists still hold the two entries
C29_Witness ==
    /\ smcall.op = "clear_state"
    /\ smcall.arg = Some("Z001")
    /\ Len(sm._state_history) = 2
    /\ Len(sm._audit_trail) = 2
    /\ sm._state_history[1].zone_id = "Z001"
    /\ sm._audit_trail[2].target_zone = "Z9"
    /\ "Z001" \notin DOMAIN sm._zone_states

\* the keys initialize_zone gives a zone by default
DefaultKeys == DOMAIN default_state(0)

\* C30: update_state on a zone id that is not in the zone-state map creates
\* the zone.  get_zone_state then returns a state with the computed updates,
\* last_updated and last_action_id and nothing else (no default of
\* initialize_zone that the update did not set), the appended record has an
\* empty previous_state, and initialize_zone on a zone that is in the map,
\* however it got there, changes nothing.
C30_UpdateCreatesBareZone ==
    [][/\ (IsUpdateStep /\ smcall'.arg.zone_id \notin DOMAIN sm._zone_states) =>
            LET c == smcall'.arg
                updates == _compute_state_updates(c.action_type, c.parameters, <<>>)
                found == get_zone_state(sm', now', c.zone_id)
            IN /\ found # None
               /\ found[1].zone_id = c.zone_id
               /\ DOMAIN found[1].state = DOMAIN updates \cup StampKeys
               /\ \A key \in DOMAIN updates : found[1].state[key] = updates[key]
               /\ found[1].state.last_action_id = PyStr(c.action_id)
               /\ (DefaultKeys \ (DOMAIN updates \cup StampKeys))
                      \cap DOMAIN found[1].state = {}
               /\ AppendedRecord.previous_state = <<>>
       /\ (smcall'.op = "initialize_zone"
               /\ smcall'.arg.zone_id \in DOMAIN sm._zone_states) =>
              (sm' = sm /\ now' = now)
       /\ smcall'.op = "get_zone_state" =>
              /\ (smcall'.ret = None) = (smcall'.arg \notin DOMAIN sm._zone_states)
              /\ smcall'.ret # None =>
                     smcall'.ret[1].state = sm._zone_states[smcall'.arg]
      ]_vars

\* Z9 was created by an update of an action type without state updates and
\* then initialised: it still holds the two stamps only
C30_Witness ==
    /\ smcall.op = "initialize_zone"
    /\ smcall.arg.zone_id = "Z9"
    /\ "Z9" \in DOMAIN sm._zone_states
    /\ DOMAIN sm._zone_states["Z9"] = StampKeys
    /\ Len(sm._state_history) = 1
    /\ sm._state_history[1].previous_state = <<>>


(***************************************************************************)
(* The action executor (src/src/services/action_executor.py) and the       *)
(* wiring of the routers (src/src/api, src/src/main.py).                   *)
(*                                                                         *)
(* execute_action is suspended in one place only: the sleep inside a       *)
(* handler.  The validator and the state manager are awaited but never     *)
(* suspend.  A call is therefore two steps: up to the handler's sleep, and *)
(* from there to the return.  A call that fails validation or finds no     *)
(* handler returns in its first step.                                      *)
(***************************************************************************)
\* ActionExecutor(state_manager, validator): validator tells whether one was
\* given; the state manager is the one of the module api.actions
NewExecutor(validator) == [validator |-> validator, _active_actions |-> <<>>]

\* get_state_manager() of a router module: its own global, created on demand
get_state_manager(module) ==
    IF _state_manager[module] = None THEN NewStateManager ELSE _state_manager[module][1]

\* get_executor() of api.actions
get_executor ==
    IF _executor = None THEN NewExecutor(TRUE) ELSE _executor[1]

\* a float with one decimal place, held in tenths
PyFloatTenths(tenths) == [type |-> "float", tenths |-> tenths]

\* demo_zones of the lifespan startup
demo_zones ==
    <<[zone_id |-> "Z001",
       initial_state |-> [temperature_setpoint |-> PyFloat(72),
                          current_temperature |-> PyFloatTenths(725),
                          hvac_mode |-> PyStr("auto"), occupancy_mode |-> PyStr("occupied"),
                          power_usage |-> PyFloatTenths(152)]],
      [zone_id |-> "Z002",
       initial_state |-> [temperature_setpoint |-> PyFloat(72),
                          current_temperature |-> PyFloatTenths(718),
                          hvac_mode |-> PyStr("auto"), occupancy_mode |-> PyStr("occupied"),
                          power_usage |-> PyFloatTenths(85)]],
      [zone_id |-> "Z003",
       initial_state |-> [temperature_setpoint |-> PyFloat(73),
                          current_temperature |-> PyFloatTenths(732),
                          hvac_mode |-> PyStr("auto"), occupancy_mode |-> PyStr("occupied"),
                          power_usage |-> PyFloatTenths(68)]],
      [zone_id |-> "Z004",
       initial_state |-> [temperature_setpoint |-> PyFloat(68),
                          current_temperature |-> PyFloatTenths(685),
                          hvac_mode |-> PyStr("auto"), occupancy_mode |-> PyStr("unoccupied"),
                          power_usage |-> PyFloatTenths(221)]],
      [zone_id |-> "Z005",
       initial_state |-> [temperature_setpoint |-> PyFloat(74),
                          current_temperature |-> PyFloatTenths(740),
                          hvac_mode |-> PyStr("auto"), occupancy_mode |-> PyStr("occupied"),
                          power_usage |-> PyFloatTenths(42)]]>>

RECURSIVE InitializeZones(_, _, _)
\* for zone_id, initial_state in zones: await state_manager.initialize_zone(...)
InitializeZones(manager, timestamp, zones) ==
    IF zones = <<>> THEN manager
    ELSE InitializeZones(initialize_zone(manager, timestamp, Head(zones).zone_id,
                                         Some(Head(zones).initial_state)),
                         timestamp + 1, Tail(zones))

\* the dict a handler returns
HandlerResult(request, applied_at) ==
    LET parameters == request.parameters
        common == [action |-> PyStr(request.action_type), zone |-> PyStr(request.target_zone),
                   applied_at |-> isoformat(applied_at)]
    IN CASE request.action_type = "setTemperature" ->
                common @@ ("setpoint" :> DictGet(parameters, "setpoint", NoneValue))
                       @@ ("mode" :> DictGet(parameters, "mode", PyStr("auto")))
         [] request.action_type = "setOccupancyMode" ->
                common @@ ("mode" :> DictGet(parameters, "mode", NoneValue))
         [] request.action_type = "adjustVentilation" ->
                common @@ ("rate" :> DictGet(parameters, "rate", NoneValue))
         [] request.action_type = "enableEconomizer" ->
                common @@ ("enabled" :> DictGet(parameters, "enabled", PyBool(TRUE)))
         [] request.action_type = "setLightingLevel" ->
                common @@ ("level" :> DictGet(parameters, "level", NoneValue))

ActionResponse(action_id, status, timestamp, handler_result, errors) ==
    [action_id |-> action_id, status |-> status, timestamp |-> timestamp,
     result |-> handler_result, errors |-> errors]

\* the next str(uuid4()): an id no call had before
FreshActionId == "act-" \o ToString(Cardinality(DOMAIN tasks) + 1)

\* the calls of the execute endpoint: a request and the X-User-Id header
ExecCalls ==
    {[request |-> [action_type |-> "setTemperature", target_zone |-> "Z001",
                   parameters |-> <<[name |-> "setpoint", value |-> PyInt(70)]>>],
      user |-> Some("alice")],
     [request |-> [action_type |-> "setTemperature", target_zone |-> "Z001",
                   parameters |-> <<[name |-> "setpoint", value |-> PyInt(95)]>>],
      user |-> None],
     [request |-> [action_type |-> "setLightingLevel", target_zone |-> "Z9",
                   parameters |-> <<[name |-> "level", value |-> PyInt(50)]>>],
      user |-> None],
     [request |-> [action_type |-> "dimLights", target_zone |-> "Z001", parameters |-> <<>>],
      user |-> Some("alice")]}

\* the lifespan startup of main.py: the state manager of api.building is
\* created and seeded with the demo zones
Startup ==
    /\ ~started
    /\ started' = TRUE
    /\ _state_manager' =
           [_state_manager EXCEPT
                !.building = Some(InitializeZones(get_state_manager("building"), now,
                                                  demo_zones))]
    /\ now' = now + Len(demo_zones)
    /\ UNCHANGED <<_executor, tasks, served,
                   requestVars, registryVars, validatorVars, managerVars>>

\* a defect: the call enters the active map before it is validated
ExecuteBegin_TrackFirst ==
    \E submitted \in ExecCalls :
        LET request == submitted.request
            user == submitted.user
            action_id == FreshActionId
            timestamp == now
            executor == get_executor
            tracked == [executor EXCEPT !._active_actions =
                            Updated(@, action_id :>
                                [request |-> request, status |-> "executing",
                                 started_at |-> timestamp, user |-> user])]
            validation_result ==
                IF executor.validator
                THEN validate_action(_validation_rules, request.action_type,
                                     request.parameters, request.target_zone)
                ELSE ValidationResponse(TRUE, <<>>, <<>>)
            handler == Handler(request.action_type)
            unsupported == [success |-> PyBool(FALSE),
                            errors |-> <<"Unsupported action type: " \o request.action_type>>]
        IN /\ started
           /\ Cardinality(DOMAIN tasks) < MaxCalls
           /\ now' = now + 1
           /\ _state_manager' =
                  [_state_manager EXCEPT !.actions = Some(get_state_manager("actions"))]
           /\ _executor' = Some(IF validation_result.is_valid /\ handler = None
                                THEN executor ELSE tracked)
           /\ tasks' = Updated(tasks, action_id :>
                  [request |-> request, user |-> user, timestamp |-> timestamp,
                   pc |-> IF validation_result.is_valid /\ handler # None
                          THEN "handler" ELSE "returned",
                   response |->
                       IF ~validation_result.is_valid
                       THEN Some(ActionResponse(action_id, "validation_failed", timestamp,
                                                None, validation_result.errors))
                       ELSE IF handler = None
                       THEN Some(ActionResponse(action_id, "failed", timestamp,
                                                Some(unsupported), Some(unsupported.errors)))
                       ELSE None])
           /\ UNCHANGED <<started, served,
                          requestVars, registryVars, validatorVars, managerVars>>

\* POST /actions/execute, and ActionExecutor.execute_action up to the sleep
\* of the handler or, when there is none, to the return
ExecuteBegin ==
    \E submitted \in ExecCalls :
        LET request == submitted.request
            user == submitted.user
            action_id == FreshActionId
            timestamp == now
            executor == get_executor
            validation_result ==
                IF executor.validator
                THEN validate_action(_validation_rules, request.action_type,
                                     request.parameters, request.target_zone)
                ELSE ValidationResponse(TRUE, <<>>, <<>>)
            handler == Handler(request.action_type)
            tracked == [executor EXCEPT !._active_actions =
                            Updated(@, action_id :>
                                [request |-> request, status |-> "executing",
                                 started_at |-> timestamp, user |-> user])]
            unsupported == [success |-> PyBool(FALSE),
                            errors |-> <<"Unsupported action type: " \o request.action_type>>]
        IN /\ started
           /\ Cardinality(DOMAIN tasks) < MaxCalls
           /\ now' = now + 1
           /\ _state_manager' =
                  [_state_manager EXCEPT !.actions = Some(get_state_manager("actions"))]
           /\ IF ~validation_result.is_valid
              THEN /\ _executor' = Some(executor)
                   /\ tasks' = Updated(tasks, action_id :>
                          [request |-> request, user |-> user, timestamp |-> timestamp,
                           pc |-> "returned",
                           response |-> Some(ActionResponse(action_id, "validation_failed",
                                                            timestamp, None,
                                                            validation_result.errors))])
              ELSE IF handler = None
              THEN /\ _executor' = Some(executor)
                   /\ tasks' = Updated(tasks, action_id :>
                          [request |-> request, user |-> user, timestamp |-> timestamp,
                           pc |-> "returned",
                           response |-> Some(ActionResponse(action_id, "failed", timestamp,
                                                            Some(unsupported),
                                                            Some(unsupported.errors)))])
              ELSE /\ _executor' = Some(tracked)
                   /\ tasks' = Updated(tasks, action_id :>
                          [request |-> request, user |-> user, timestamp |-> timestamp,
                           pc |-> "handler", response |-> None])
           /\ UNCHANGED <<started, served,
                          requestVars, registryVars, validatorVars, managerVars>>

\* a defect: the entry stays in the active map when the call returns
ExecuteResume_KeepEntry ==
    \E action_id \in DOMAIN tasks :
        LET task == tasks[action_id]
            request == task.request
            executor == _executor[1]
            manager == _state_manager.actions[1]
            handler_result == ("success" :> PyBool(TRUE)) @@ HandlerResult(request, now)
        IN /\ task.pc = "handler"
           /\ now' = now + 2
           /\ _state_manager' =
                  [_state_manager EXCEPT !.actions =
                       Some(update_state(manager, now + 1, request.target_zone,
                                         request.action_type, request.parameters,
                                         action_id, None))]
           /\ _executor' = Some(executor)
           /\ tasks' = [tasks EXCEPT ![action_id] =
                  [@ EXCEPT !.pc = "returned",
                            !.response = Some(ActionResponse(action_id, "completed",
                                                             task.timestamp,
                                                             Some(handler_result), None))]]
           /\ UNCHANGED <<started, served,
                          requestVars, registryVars, validatorVars, managerVars>>

\* execute_action from the end of the handler's sleep to the return: the
\* handler returns its dict (handlers raise nothing), update_state is
\* called without a user, and "del self._active_actions[action_id]" raises
\* KeyError when cancel_action removed the entry meanwhile; the except
\* clause then answers status "error"
ExecuteResume ==
    \E action_id \in DOMAIN tasks :
        LET task == tasks[action_id]
            request == task.request
            executor == _executor[1]
            manager == _state_manager.actions[1]
            handler_result == ("success" :> PyBool(TRUE)) @@ HandlerResult(request, now)
            active == action_id \in DOMAIN executor._active_actions
        IN /\ task.pc = "handler"
           /\ now' = now + 2
           /\ _state_manager' =
                  [_state_manager EXCEPT !.actions =
                       Some(update_state(manager, now + 1, request.target_zone,
                                         request.action_type, request.parameters,
                                         action_id, None))]
           /\ _executor' =
                  Some([executor EXCEPT !._active_actions = Without(@, action_id)])
           /\ tasks' = [tasks EXCEPT ![action_id] =
                  [@ EXCEPT !.pc = "returned",
                            !.response =
                                IF active
                                THEN Some(ActionResponse(action_id, "completed",
                                                         task.timestamp, Some(handler_result), None))
                                ELSE Some(ActionResponse(action_id, "error", task.timestamp,
                                                         None,
                                                         Some(<<"Execution error: '"
                                                                \o action_id \o "'">>)))]]
           /\ UNCHANGED <<started, served,
                          requestVars, registryVars, validatorVars, managerVars>>

\* DELETE /actions/{action_id}: ActionExecutor.cancel_action
CancelAction ==
    \E action_id \in DOMAIN tasks \cup {"no-such-action"} :
        LET executor == get_executor
            active == action_id \in DOMAIN executor._active_actions
        IN /\ started
           /\ _executor' =
                  Some([executor EXCEPT !._active_actions =
                            IF active THEN Without(@, action_id) ELSE @])
           /\ _state_manager' =
                  [_state_manager EXCEPT !.actions = Some(get_state_manager("actions"))]
           /\ served' = [op |-> "cancel_action", arg |-> action_id, ret |-> active]
           /\ UNCHANGED <<started, tasks, now,
                          requestVars, registryVars, validatorVars, managerVars>>

\* GET /building/zones/{zone_id}/state
ServeZoneState ==
    \E zone_id \in {"Z001", "Z9"} :
        LET manager == get_state_manager("building")
        IN /\ started
           /\ _state_manager' = [_state_manager EXCEPT !.building = Some(manager)]
           /\ served' = [op |-> "get_zone_state", arg |-> zone_id,
                         ret |-> get_zone_state(manager, now, zone_id)]
           /\ UNCHANGED <<started, _executor, tasks, now,
                          requestVars, registryVars, validatorVars, managerVars>>

\* GET /audit/history
ServeActionHistory ==
    LET manager == get_state_manager("audit")
    IN /\ started
       /\ _state_manager' = [_state_manager EXCEPT !.audit = Some(manager)]
       /\ served' = [op |-> "get_action_history", arg |-> None,
                     ret |-> get_audit_trail(manager, None)]
       /\ UNCHANGED <<started, _executor, tasks, now,
                      requestVars, registryVars, validatorVars, managerVars>>

NextApi ==
    \/ Startup
    \/ ExecuteBegin
    \/ ExecuteResume
    \/ CancelAction
    \/ ServeZoneState
    \/ ServeActionHistory

\* the application behind its routers
SpecApi == Init /\ [][NextApi]_vars

\* an executor constructed with a state manager of its own and with or
\* without a validator
InitExecutor ==
    /\ phase = "idle"
    /\ kind = "none"
    /\ payload = <<>>
    /\ result = NoResult
    /\ _actions = <<>>
    /\ imported = FALSE
    /\ call = NoCall
    /\ _validation_rules = _load_validation_rules
    /\ vstage = "idle"
    /\ vrequest = NoRequest
    /\ vresponse = NoResponse
    /\ now = 0
    /\ sm = NewStateManager
    /\ smcall = NoCall
    /\ started = TRUE
    /\ _state_manager = [NoStateManagers EXCEPT !.actions = Some(NewStateManager)]
    /\ _executor \in {Some(NewExecutor(validator)) : validator \in BOOLEAN}
    /\ tasks = <<>>
    /\ served = NoCall

NextExecutor ==
    \/ ExecuteBegin
    \/ ExecuteResume
    \/ CancelAction

SpecExecutor == InitExecutor /\ [][NextExecutor]_vars


(***************************************************************************)
(* Properties of the routers and the executor.                             *)
(***************************************************************************)
\* the calls that returned with the given status
Returned(status) ==
    {action_id \in DOMAIN tasks :
        /\ tasks[action_id].pc = "returned"
        /\ tasks[action_id].response[1].status = status}

\* the served zone state holds every update the action's parameters lead to
Reflects(served_state, request) ==
    /\ served_state # None
    /\ LET updates == _compute_state_updates(request.action_type, request.parameters, <<>>)
       IN \A key \in DOMAIN updates :
              /\ key \in DOMAIN served_state[1].state
              /\ served_state[1].state[key] = updates[key]

\* C22: once the execute endpoint returned "completed" for a request on
\* zone z, the zone state the building endpoints serve for z reflects the
\* parameters of the request (of the only completed one on z), and the
\* audit trail the audit endpoints serve has an entry with its action_id
C22_RoutersShareStateManager ==
    \A action_id \in Returned("completed") :
        LET request == tasks[action_id].request
            others == {other \in Returned("completed") \ {action_id} :
                          tasks[other].request.target_zone = request.target_zone}
        IN /\ others = {} =>
                  Reflects(get_zone_state(get_state_manager("building"), now,
                                          request.target_zone), request)
           /\ \E i \in DOMAIN get_audit_trail(get_state_manager("audit"), None) :
                  get_audit_trail(get_state_manager("audit"), None)[i].action_id = action_id


\* the state manager the executor was given
ManagerOf(slots) == IF slots.actions = None THEN NewStateManager ELSE slots.actions[1]

\* the executor's active-action map
ActiveOf(executor) == IF executor = None THEN {} ELSE DOMAIN executor[1]._active_actions

\* the state manager holds something of the action: a history record, an
\* audit entry, or a zone whose last action it is
Touched(manager, action_id) ==
    \/ \E i \in DOMAIN manager._state_history :
           manager._state_history[i].action_id = action_id
    \/ \E i \in DOMAIN manager._audit_trail :
           manager._audit_trail[i].action_id = action_id
    \/ \E zone_id \in DOMAIN manager._zone_states :
           /\ "last_action_id" \in DOMAIN manager._zone_states[zone_id]
           /\ manager._zone_states[zone_id].last_action_id = PyStr(action_id)

\* the validator the executor has finds no error in the request
PassesValidation(request) ==
    \/ ~get_executor.validator
    \/ validate_action(_validation_rules, request.action_type, request.parameters,
                       request.target_zone).is_valid

StatusOf(task) == IF task.response = None THEN "none" ELSE task.response[1].status

\* C24: execute_action validates, enters the active-action map, runs the
\* handler, updates the state and leaves the map, in this order: a call
\* inside its handler passed validation, entered the map when it started
\* and has not reached the state manager; a call that returns from its
\* handler has updated the state and is out of the map.  A request with
\* validation errors returns "validation_failed" in a step that leaves the
\* map and the state manager as they were, and the state manager is
\* updated by calls whose handler reported success only
C24_ExecutionOrder ==
    [][\A action_id \in DOMAIN tasks' :
          LET task == tasks'[action_id]
              fresh == action_id \notin DOMAIN tasks
              resumed == ~fresh /\ tasks[action_id].pc = "handler" /\ task.pc = "returned"
          IN /\ task.pc = "handler" =>
                    /\ PassesValidation(task.request)
                    /\ Handler(task.request.action_type) # None
                    /\ fresh => action_id \in ActiveOf(_executor')
                    /\ ~Touched(ManagerOf(_state_manager'), action_id)
             /\ resumed =>
                    /\ Touched(ManagerOf(_state_manager'), action_id)
                    /\ action_id \notin ActiveOf(_executor')
                    /\ StatusOf(task) \in {"completed", "error"}
             /\ fresh /\ ~PassesValidation(task.request) =>
                    /\ StatusOf(task) = "validation_failed"
                    /\ ActiveOf(_executor') = ActiveOf(_executor)
                    /\ ManagerOf(_state_manager') = ManagerOf(_state_manager)
             /\ StatusOf(task) = "validation_failed" =>
                    /\ ~PassesValidation(task.request)
                    /\ action_id \notin ActiveOf(_executor')
                    /\ ~Touched(ManagerOf(_state_manager'), action_id)
             /\ StatusOf(task) = "failed" =>
                    /\ task.response[1].result[1].success = PyBool(FALSE)
                    /\ ~Touched(ManagerOf(_state_manager'), action_id)
                    /\ fresh => ManagerOf(_state_manager') = ManagerOf(_state_manager)
             /\ Touched(ManagerOf(_state_manager'), action_id) =>
                    /\ task.pc = "returned"
                    /\ Handler(task.request.action_type) # None
                    /\ PassesValidation(task.request)]_vars

\* one call failed validation and left nothing; another ran its handler,
\* updated the state and left the map
C24_Witness ==
    \E failed \in Returned("validation_failed"), done \in Returned("completed") :
        /\ Touched(ManagerOf(_state_manager), done)
        /\ ~Touched(ManagerOf(_state_manager), failed)
        /\ ActiveOf(_executor) = {}
        /\ tasks[failed].timestamp < tasks[done].timestamp


\* C25: a call that returned a status other than "completed", one cancelled
\* inside its handler included, has no history record, no audit entry and
\* no zone state in the state manager
C25_NoTraceUnlessCompleted ==
    \A action_id \in DOMAIN tasks :
        (tasks[action_id].pc = "returned" /\ StatusOf(tasks[action_id]) # "completed")
            => ~Touched(ManagerOf(_state_manager), action_id)


\* C26: the audit entry written for a call names the user the call was
\* made with
C26_AuditEntryNamesUser ==
    LET manager == ManagerOf(_state_manager)
    IN \A i \in DOMAIN manager._audit_trail :
           LET entry == manager._audit_trail[i]
           IN entry.action_id \in DOMAIN tasks =>
                  entry.user = tasks[entry.action_id].user


====
